---------------------------- MODULE Spec2Model ----------------------------
(***************************************************************************)
(* Model of cli/Anomaly-Detection-main/anomaly_pipeline.py.                *)
(*                                                                         *)
(* run_anomaly_pipeline is one sequential computation; every statement     *)
(* group of it is one action, in the order of the source.  A DataFrame is  *)
(* a record [columns, dtypes, rows].  A number is an exact rational        *)
(* <<n, d>> with d > 0; d = 0 encodes the IEEE specials: <<0, 0>> is NaN,  *)
(* <<1, 0>> is +Inf and <<-1, 0>> is -Inf.  Floating-point rounding is not *)
(* modelled: arithmetic is exact.                                          *)
(*                                                                         *)
(* numpy, pandas and scikit-learn are libraries the pipeline calls.  What  *)
(* they document is modelled as they document it (fillna, StandardScaler,  *)
(* np.interp, argsort).  What they leave unspecified but compute           *)
(* deterministically (the order of ties of an unstable sort, the score a   *)
(* fitted detector gives a row) is a value chosen at its first use and     *)
(* kept in lib, so that the same call on the same arguments gives the same *)
(* value again within one behaviour.                                       *)
(***************************************************************************)
EXTENDS Integers, Sequences, FiniteSets, TLC

VARIABLES
    input_csv,      \* the CSV file's content, as pd.read_csv reads it
    pc,             \* position of run_anomaly_pipeline
    run,            \* number of the current invocation, from 1
    df_raw,         \* after to_datetime, sort_values and reset_index
    split_idx,
    df_train,
    df_test,
    df_train_clean,
    df_test_clean,
    feature_names,
    scaler,         \* StandardScaler state: mean_, scale2_ (scale_ squared)
    X_train,
    X_test,
    models,
    raw_scores,
    ens,
    output_df,
    top_features,
    output_csv,     \* the file save_output writes
    returned,       \* value of the call, NoFrame until it returns
    error,          \* the exception that ended the run, or "none"
    failed_at,      \* the stage that raised it, or "none"
    trace,          \* stages completed by the current run, in order
    prev_returned,  \* what the previous invocation returned
    lib,            \* values of the libraries' unspecified functions
    call,           \* a direct call of one of the module's functions
    db,             \* server.py: the MongoDB collections of main_db, by name
    requests,       \* server.py: handlers and background tasks in flight
    uuids,          \* server.py: number of uuid4 values drawn so far
    response,       \* server.py: the response the last step sent, if any
    access,         \* server.py: the collections the last step read or wrote
    deleted,        \* server.py: ids whose delete_service has returned
    deployment      \* server.py: os.environ and the driver's capabilities

vars == <<input_csv, pc, run, df_raw, split_idx, df_train, df_test,
          df_train_clean, df_test_clean, feature_names, scaler, X_train,
          X_test, models, raw_scores, ens, output_df, top_features,
          output_csv, returned, error, failed_at, trace, prev_returned,
          lib, call, db, requests, uuids, response, access, deleted,
          deployment>>

\* the state of the backend server (src/backend/server.py)
server_vars == <<db, requests, uuids, response, access, deleted, deployment>>

---------------------------------------------------------------------------
(* Bounds of the model. *)

MaxRows == 4
MaxRuns == 2
MaxVector == 3      \* rows of a direct call of ensemble_score
MaxFeatures == 3    \* columns of a direct call of get_top_features

---------------------------------------------------------------------------
(* Exact rational arithmetic with the IEEE specials. *)

RECURSIVE GCD(_, _)
GCD(a, b) == IF b = 0 THEN a ELSE GCD(b, a % b)

Abs(x) == IF x < 0 THEN -x ELSE x

Sign(x) == IF x < 0 THEN -1 ELSE IF x = 0 THEN 0 ELSE 1

NaN == <<0, 0>>

Rat(n, d) ==
    IF d = 0 THEN <<Sign(n), 0>>
    ELSE LET g == GCD(Abs(n), Abs(d))
             s == Sign(d)
         IN  <<(s * n) \div g, (s * d) \div g>>

Num(n) == <<n, 1>>

IsNaN(x) == x = NaN

IsFinite(x) == x[2] # 0

RAdd(x, y) ==
    IF IsFinite(x) /\ IsFinite(y) THEN Rat(x[1] * y[2] + y[1] * x[2], x[2] * y[2])
    ELSE IF IsNaN(x) \/ IsNaN(y) THEN NaN
    ELSE IF ~IsFinite(x) /\ ~IsFinite(y) /\ x # y THEN NaN
    ELSE IF IsFinite(x) THEN y ELSE x

RNeg(x) == <<-x[1], x[2]>>

RSub(x, y) == RAdd(x, RNeg(y))

RMul(x, y) ==
    IF IsFinite(x) /\ IsFinite(y) THEN Rat(x[1] * y[1], x[2] * y[2])
    ELSE IF IsNaN(x) \/ IsNaN(y) \/ x[1] = 0 \/ y[1] = 0 THEN NaN
    ELSE <<Sign(x[1]) * Sign(y[1]), 0>>

RDiv(x, y) ==
    IF IsNaN(x) \/ IsNaN(y) THEN NaN
    ELSE IF IsFinite(y) THEN
        (IF y[1] = 0 THEN <<Sign(x[1]), 0>>
         ELSE IF IsFinite(x) THEN Rat(x[1] * y[2], x[2] * y[1])
         ELSE <<x[1] * Sign(y[1]), 0>>)
    ELSE IF IsFinite(x) THEN Num(0) ELSE NaN

\* x < y, for two numbers neither of which is NaN
RLt(x, y) ==
    IF IsFinite(x) /\ IsFinite(y) THEN x[1] * y[2] < y[1] * x[2]
    ELSE IF IsFinite(x) THEN y[1] > 0
    ELSE IF IsFinite(y) THEN x[1] < 0
    ELSE x[1] < y[1]

RLe(x, y) == x = y \/ RLt(x, y)

RECURSIVE RSum(_)
RSum(s) == IF s = <<>> THEN Num(0) ELSE RAdd(Head(s), RSum(Tail(s)))

Range(s) == {s[i] : i \in DOMAIN s}

---------------------------------------------------------------------------
(* DataFrames.  Row i holds, at position j, the value of column j. *)

NoFrame == [columns |-> <<>>, dtypes |-> <<>>, rows |-> <<>>]

ColIndex(df, c) == CHOOSE j \in 1..Len(df.columns) : df.columns[j] = c

HasColumn(df, c) == \E j \in 1..Len(df.columns) : df.columns[j] = c

Column(df, c) == [i \in 1..Len(df.rows) |-> df.rows[i][ColIndex(df, c)]]

\* df.iloc[lo-1:hi]
ILoc(df, lo, hi) == [df EXCEPT !.rows = SubSeq(df.rows, lo, hi)]

\* df[c] = values: an existing column is overwritten in place, a new one is
\* appended on the right
SetColumn(df, c, dtype, values) ==
    IF HasColumn(df, c)
    THEN LET j == ColIndex(df, c)
         IN  [df EXCEPT !.dtypes[j] = dtype,
                        !.rows = [i \in 1..Len(df.rows) |->
                                     [df.rows[i] EXCEPT ![j] = values[i]]]]
    ELSE [columns |-> Append(df.columns, c),
          dtypes  |-> Append(df.dtypes, dtype),
          rows    |-> [i \in 1..Len(df.rows) |-> Append(df.rows[i], values[i])]]

\* df[cols of the given positions]
Project(df, pos) ==
    [columns |-> [j \in 1..Len(pos) |-> df.columns[pos[j]]],
     dtypes  |-> [j \in 1..Len(pos) |-> df.dtypes[pos[j]]],
     rows    |-> [i \in 1..Len(df.rows) |->
                    [j \in 1..Len(pos) |-> df.rows[i][pos[j]]]]]

---------------------------------------------------------------------------
(* The input files of the model. *)

time_col == "Time"

TimeTokens == {"2020-01-01", "2020-01-02"}

\* pd.to_datetime of a cell of the time column
ToDatetime(tok) ==
    CASE tok = "2020-01-01" -> [day |-> 1]
      [] tok = "2020-01-02" -> [day |-> 2]

FeatureValues == {Num(0), Num(1), NaN}

\* a file with the time column, two numeric columns and a text column
FullRows == {<<t, a, Num(5), "x">> : t \in TimeTokens, a \in FeatureValues}

\* a file with no numeric column
TextRows == {<<t, "x">> : t \in TimeTokens}

SeqsUpTo(S, n) == UNION {[1..m -> S] : m \in 0..n}

Datasets ==
    {[columns |-> <<"Time", "a", "b", "label">>,
      kinds   |-> <<"text", "number", "number", "text">>,
      rows    |-> r] : r \in SeqsUpTo(FullRows, MaxRows)}
    \cup
    {[columns |-> <<"Time", "label">>,
      kinds   |-> <<"text", "text">>,
      rows    |-> r] : r \in SeqsUpTo(TextRows, MaxRows)}

---------------------------------------------------------------------------
(* Library functions. *)

\* pd.read_csv: a column of numbers becomes a numeric column, any other an
\* object column; a file without rows has object columns only
ReadCsv(file) ==
    [columns |-> file.columns,
     dtypes  |-> [j \in 1..Len(file.columns) |->
                    IF file.rows # <<>> /\ file.kinds[j] = "number"
                    THEN "float64" ELSE "object"],
     rows    |-> file.rows]

\* df[c] = pd.to_datetime(df[c])
ParseTimeColumn(df, c) ==
    LET j == ColIndex(df, c)
    IN  [df EXCEPT !.dtypes[j] = "datetime64",
                   !.rows = [i \in 1..Len(df.rows) |->
                               [df.rows[i] EXCEPT ![j] = ToDatetime(@)]]]

IsSortedBy(rows, j) ==
    \A i \in 1..(Len(rows) - 1) : rows[i][j].day <= rows[i + 1][j].day

\* df.sort_values(by=c) with the default kind="quicksort", which is not
\* stable: every ascending arrangement of the rows is a possible result
SortValues(df, c) ==
    LET j == ColIndex(df, c)
        n == Len(df.rows)
    IN  {[df EXCEPT !.rows = [i \in 1..n |-> df.rows[p[i]]]] :
            p \in {q \in Permutations(1..n) :
                     IsSortedBy([i \in 1..n |-> df.rows[q[i]]], j)}}

---------------------------------------------------------------------------
(* run_anomaly_pipeline, statement by statement. *)

NoScaler == [fitted |-> FALSE, mean_ |-> <<>>, scale2_ |-> <<>>]

---------------------------------------------------------------------------
(* The backend server, src/backend/server.py: a FastAPI application over   *)
(* one MongoDB database.  A collection is the sequence of its documents in *)
(* insertion order; a document is a record of the fields that some handler *)
(* reads or that decide an outcome (description, logs, created_at and      *)
(* updated_at are left out: created_at is the order of insertion).  Each   *)
(* awaited database operation is one atomic step, together with the        *)
(* synchronous code that follows it up to the next await.                  *)

MaxServices == 1
MaxRollbacks == 1
MaxDevelopers == 1
MaxInFlight == 2

\* Optional[...] values
None == <<>>

Some(v) == <<v>>

\* `not x` of an Optional[str]
Falsy(x) == x = None \/ x = Some("")

Kinds == {"services", "developers", "pipelines", "templates"}

UserHashes == {"u", "u_services"}

\* values of the X-User-Hash header
Headers == {None, Some("")} \cup {Some(h) : h \in UserHashes}

\* the response FastAPI sends for a raised HTTPException
HTTPException(code, detail) ==
    [status_code |-> code, body |-> [detail |-> detail]]

Raised(r) == "status_code" \in DOMAIN r

\* as get_user_db, but every tenant gets the collections of main_db
get_shared_db(user_hash) ==
    IF Falsy(user_hash)
    THEN HTTPException(401, "User hash required")
    ELSE [services |-> "services", developers |-> "developers",
          pipelines |-> "pipelines", templates |-> "templates"]

\* lines 35-46: the names of the caller's collections, or HTTP 401
get_user_db(user_hash) ==
    IF Falsy(user_hash)
    THEN HTTPException(401, "User hash required")
    ELSE [services   |-> user_hash[1] \o "_services",
          developers |-> user_hash[1] \o "_developers",
          pipelines  |-> user_hash[1] \o "_pipelines",
          templates  |-> user_hash[1] \o "_templates"]

\* every collection a handler can name: those of the tenants and those of
\* main_db itself (db.services, db.pipelines, ..., lines 31-32)
CollectionNames ==
    {h \o "_" \o k : h \in UserHashes, k \in Kinds} \cup Kinds

\* uuid4 values, by the model class that drew them
Uuid(class, n) == <<class, n>>

NoUuids == [Service |-> 0, Pipeline |-> 0, Developer |-> 0]

\* class Service, lines 69-80, as create_service builds it from ServiceCreate
Service(id, service_data) ==
    [id |-> id,
     name |-> service_data.name,
     service_type |-> service_data.service_type,
     developer_id |-> service_data.developer_id,
     github_repo_url |-> service_data.github_repo_url,
     docker_image |-> service_data.docker_image,
     service_url |-> None,
     status |-> "creating"]

\* class Pipeline, lines 90-98
Pipeline(id, service_id, status, stage) ==
    [id |-> id, service_id |-> service_id, status |-> status,
     stage |-> stage, progress |-> 0]

\* class Developer, lines 55-61
Developer(id, developer) ==
    [id |-> id, name |-> developer.name, email |-> developer.email]

\* the document startup_db_client builds, lines 1008-1060
api_template == [service_type |-> "api"]

\* Motor collection operations; a filter is one field and its value
Matching(coll, key, value) ==
    {i \in 1..Len(coll) : coll[i][key] = value}

insert_one(coll, doc) == Append(coll, doc)

\* find_one(filter): the first match in natural order, or None
find_one(coll, key, value) ==
    IF Matching(coll, key, value) = {} THEN None
    ELSE Some(coll[CHOOSE i \in Matching(coll, key, value) :
                     \A j \in Matching(coll, key, value) : i <= j])

\* find_one(filter, sort=[("created_at", -1)]): the match created last
find_latest(coll, key, value) ==
    IF Matching(coll, key, value) = {} THEN None
    ELSE Some(coll[CHOOSE i \in Matching(coll, key, value) :
                     \A j \in Matching(coll, key, value) : i >= j])

\* {"$set": changes} applied to one document
SetFields(doc, changes) ==
    [f \in DOMAIN doc |-> IF f \in DOMAIN changes THEN changes[f] ELSE doc[f]]

\* update_one(filter, {"$set": changes}): one matching document is changed;
\* which one, when several match, is the server's choice (natural order is
\* not specified), so every choice is a possible result
update_one(coll, key, value, changes) ==
    IF Matching(coll, key, value) = {} THEN {coll}
    ELSE {[coll EXCEPT ![i] = SetFields(@, changes)] :
            i \in Matching(coll, key, value)}

\* update_one(filter, update, sort=[("created_at", -1)])
update_latest(coll, key, value, changes) ==
    IF Matching(coll, key, value) = {} THEN coll
    ELSE LET i == CHOOSE i \in Matching(coll, key, value) :
                     \A j \in Matching(coll, key, value) : i >= j
         IN  [coll EXCEPT ![i] = SetFields(@, changes)]

Remaining(coll, drop, n) ==
    [i \in 1..n |-> coll[CHOOSE k \in 1..Len(coll) :
        /\ k \notin drop
        /\ Cardinality({m \in 1..k : m \notin drop}) = i]]

\* delete_many(filter)
delete_many(coll, key, value) ==
    Remaining(coll, Matching(coll, key, value),
              Len(coll) - Cardinality(Matching(coll, key, value)))

\* delete_one(filter): the first match is removed
delete_one(coll, key, value) ==
    IF Matching(coll, key, value) = {} THEN coll
    ELSE LET i == CHOOSE i \in Matching(coll, key, value) :
                     \A j \in Matching(coll, key, value) : i <= j
         IN  Remaining(coll, {i}, Len(coll) - 1)

NoResponse == [status_code |-> 0, body |-> [detail |-> ""]]

NoAccess == [scoped |-> FALSE, by |-> None, names |-> {}]

EmptyDb == [n \in CollectionNames |-> <<>>]

\* the server is not running
ServerDown ==
    /\ db = EmptyDb
    /\ requests = {}
    /\ uuids = NoUuids
    /\ response = NoResponse
    /\ access = NoAccess
    /\ deleted = {}
    /\ deployment = [GITHUB_TOKEN |-> None, update_one_sort |-> TRUE,
                     concurrency |-> 0]

NoLib == [sort |-> <<>>, argsort |-> <<>>, score |-> <<>>]

NoCall == [fn |-> "none"]

NoFile == [columns |-> <<>>, rows |-> <<>>]

Locals ==
    /\ df_raw = NoFrame
    /\ split_idx = 0
    /\ df_train = NoFrame
    /\ df_test = NoFrame
    /\ df_train_clean = NoFrame
    /\ df_test_clean = NoFrame
    /\ feature_names = <<>>
    /\ scaler = NoScaler
    /\ X_train = <<>>
    /\ X_test = <<>>
    /\ models = <<>>
    /\ raw_scores = <<>>
    /\ ens = <<>>
    /\ output_df = NoFrame
    /\ top_features = <<>>
    /\ returned = NoFrame
    /\ error = "none"
    /\ failed_at = "none"
    /\ trace = <<>>

Init ==
    /\ input_csv \in Datasets
    /\ pc = "load"
    /\ run = 1
    /\ Locals
    /\ output_csv = NoFile
    /\ prev_returned = NoFrame
    /\ lib = NoLib
    /\ call = NoCall
    /\ ServerDown

\* the statement groups of run_anomaly_pipeline, in the order of the source
StageOrder ==
    <<"load", "split", "prepare", "scale_fit", "scale_transform", "fit",
      "score", "ensemble", "build", "rank", "save", "return">>

StageIndex(st) == CHOOSE i \in 1..Len(StageOrder) : StageOrder[i] = st

\* as Advance, but a stage that completes for the first time is entered
\* again
AdvanceOrRepeat(st, nxt) ==
    /\ pc' = (IF \E i \in 1..Len(trace) : trace[i] = st THEN nxt ELSE st)
    /\ trace' = Append(trace, st)
    /\ UNCHANGED <<error, failed_at>>

\* the step of stage st succeeds and control moves to stage nxt
Advance(st, nxt) ==
    /\ pc' = nxt
    /\ trace' = Append(trace, st)
    /\ UNCHANGED <<error, failed_at>>

\* as Raise, but the exception is swallowed and the next stage runs
RaiseAndContinue(st, e) ==
    /\ pc' = StageOrder[StageIndex(st) + 1]
    /\ error' = e
    /\ failed_at' = st
    /\ UNCHANGED trace

\* the step of stage st raises exception e, which ends the run
Raise(st, e) ==
    /\ pc' = "failed"
    /\ error' = e
    /\ failed_at' = st
    /\ UNCHANGED trace

\* lines 75-79: read the file, parse the time column, sort by it
Load ==
    /\ pc = "load"
    /\ LET df == ParseTimeColumn(ReadCsv(input_csv), time_col)
       IN  \E sorted \in SortValues(df, time_col) :
              /\ lib.sort # <<>> => sorted = lib.sort[1]
              /\ df_raw' = sorted
              /\ lib' = [lib EXCEPT !.sort = <<sorted>>]
    /\ Advance("load", "split")
    /\ UNCHANGED server_vars
    /\ UNCHANGED <<input_csv, run, split_idx, df_train, df_test,
                   df_train_clean, df_test_clean, feature_names, scaler,
                   X_train, X_test, models, raw_scores, ens, output_df,
                   top_features, output_csv, returned, prev_returned, call>>

\* as SplitIndex, but rounding up
SplitIndexCeil(n) == (n * 7 + 9) \div 10

\* int(n * 0.7) in double precision, which is floor(7n/10) for every n < 90
\* (int(90 * 0.7) is 62)
SplitIndex(n) == (n * 7) \div 10

\* lines 81-84: the temporal split
Split ==
    /\ pc = "split"
    /\ split_idx' = SplitIndex(Len(df_raw.rows))
    /\ df_train' = ILoc(df_raw, 1, split_idx')
    /\ df_test' = ILoc(df_raw, split_idx' + 1, Len(df_raw.rows))
    /\ Advance("split", "prepare")
    /\ UNCHANGED server_vars
    /\ UNCHANGED <<input_csv, run, df_raw,
                   df_train_clean, df_test_clean, feature_names, scaler,
                   X_train, X_test, models, raw_scores, ens, output_df,
                   top_features, output_csv, returned, prev_returned, lib,
                   call>>

\* as SelectNumeric, but judging each column by the values the partition
\* holds: a numeric column without any value in it is not selected
SelectNumericWithValues(df) ==
    Project(df, SelectSeq([j \in 1..Len(df.columns) |-> j],
                          LAMBDA j : /\ df.dtypes[j] = "float64"
                                     /\ \E i \in 1..Len(df.rows) :
                                           ~IsNaN(df.rows[i][j])))

\* df.select_dtypes(include=[np.number])
SelectNumeric(df) ==
    Project(df, SelectSeq([j \in 1..Len(df.columns) |-> j],
                          LAMBDA j : df.dtypes[j] = "float64"))

\* Series.mean(): the mean of the values that are not NaN, NaN if none is
Mean(values) ==
    LET present == SelectSeq(values, LAMBDA v : ~IsNaN(v))
    IN  IF present = <<>> THEN NaN
        ELSE RDiv(RSum(present), Num(Len(present)))

\* df.mean(), one value per column
ColumnMeans(df) ==
    [j \in 1..Len(df.columns) |->
        Mean([i \in 1..Len(df.rows) |-> df.rows[i][j]])]

\* df.fillna(value): NaN cells take their column's value
FillNa(df, value) ==
    [df EXCEPT !.rows = [i \in 1..Len(df.rows) |->
                           [j \in 1..Len(df.columns) |->
                               IF IsNaN(df.rows[i][j]) THEN value[j]
                               ELSE df.rows[i][j]]]]

\* lines 10-13
validate_and_prepare(df) ==
    LET numeric_df == SelectNumeric(df)
    IN  FillNa(numeric_df, ColumnMeans(numeric_df))

\* lines 86-89: numeric features of both partitions
Prepare ==
    /\ pc = "prepare"
    /\ df_train_clean' = validate_and_prepare(df_train)
    /\ df_test_clean' = validate_and_prepare(df_test)
    /\ feature_names' = df_train_clean'.columns
    /\ Advance("prepare", "scale_fit")
    /\ UNCHANGED server_vars
    /\ UNCHANGED <<input_csv, run, df_raw, split_idx, df_train, df_test,
                   scaler, X_train, X_test, models, raw_scores, ens,
                   output_df, top_features, output_csv, returned,
                   prev_returned, lib, call>>

\* sklearn's check_array: an estimator takes no array without rows or
\* without columns
EmptyArray(df) == df.rows = <<>> \/ df.columns = <<>>

\* np.nanvar of a column: the population variance of its non-NaN values
Variance(values) ==
    LET present == SelectSeq(values, LAMBDA v : ~IsNaN(v))
        m == Mean(values)
    IN  IF present = <<>> THEN NaN
        ELSE RDiv(RSum([i \in 1..Len(present) |->
                          RMul(RSub(present[i], m), RSub(present[i], m))]),
                  Num(Len(present)))

\* as HandleZerosInScale, but leaving a zero scale as it is
KeepZerosInScale(var) == var

\* StandardScaler's _handle_zeros_in_scale: a zero scale is replaced by 1
HandleZerosInScale(var) == IF var = Num(0) THEN Num(1) ELSE var

\* StandardScaler.fit: mean_ and the square of scale_, per column
ScalerFit(df) ==
    [fitted  |-> TRUE,
     mean_   |-> ColumnMeans(df),
     scale2_ |-> [j \in 1..Len(df.columns) |->
                    HandleZerosInScale(
                        Variance([i \in 1..Len(df.rows) |-> df.rows[i][j]]))]]

\* a cell of a scaled matrix stands for num / sqrt(scale2)
CellFinite(c) ==
    IsFinite(c.num) /\ IsFinite(c.scale2) /\ c.scale2[1] # 0

MatrixFinite(X) ==
    \A i \in 1..Len(X) : \A j \in 1..Len(X[i]) : CellFinite(X[i][j])

\* StandardScaler.transform: (x - mean_) / scale_
ScalerTransform(sc, df) ==
    [i \in 1..Len(df.rows) |->
        [j \in 1..Len(df.columns) |->
            [num |-> RSub(df.rows[i][j], sc.mean_[j]),
             scale2 |-> sc.scale2_[j]]]]

\* line 19: scaler.fit_transform(train_df)
ScaleFit ==
    /\ pc = "scale_fit"
    /\ IF EmptyArray(df_train_clean)
       THEN /\ Raise("scale_fit", "ValueError")
            /\ UNCHANGED <<scaler, X_train>>
       ELSE /\ scaler' = ScalerFit(df_train_clean)
            /\ X_train' = ScalerTransform(scaler', df_train_clean)
            /\ Advance("scale_fit", "scale_transform")
    /\ UNCHANGED server_vars
    /\ UNCHANGED <<input_csv, run, df_raw, split_idx, df_train, df_test,
                   df_train_clean, df_test_clean, feature_names, X_test,
                   models, raw_scores, ens, output_df, top_features,
                   output_csv, returned, prev_returned, lib, call>>

\* as ScaleTransform, but fitting the scaler again, on the test partition
ScaleTransformRefitting ==
    /\ pc = "scale_transform"
    /\ IF \/ EmptyArray(df_test_clean)
          \/ df_test_clean.columns # df_train_clean.columns
       THEN /\ Raise("scale_transform", "ValueError")
            /\ UNCHANGED <<scaler, X_test>>
       ELSE /\ scaler' = ScalerFit(df_test_clean)
            /\ X_test' = ScalerTransform(scaler', df_test_clean)
            /\ Advance("scale_transform", "fit")
    /\ UNCHANGED server_vars
    /\ UNCHANGED <<input_csv, run, df_raw, split_idx, df_train, df_test,
                   df_train_clean, df_test_clean, feature_names,
                   X_train, models, raw_scores, ens, output_df,
                   top_features, output_csv, returned, prev_returned, lib,
                   call>>

\* line 20: scaler.transform(test_df)
ScaleTransform ==
    /\ pc = "scale_transform"
    /\ IF \/ EmptyArray(df_test_clean)
          \/ df_test_clean.columns # df_train_clean.columns
       THEN /\ Raise("scale_transform", "ValueError")
            /\ UNCHANGED X_test
       ELSE /\ X_test' = ScalerTransform(scaler, df_test_clean)
            /\ Advance("scale_transform", "fit")
    /\ UNCHANGED server_vars
    /\ UNCHANGED <<input_csv, run, df_raw, split_idx, df_train, df_test,
                   df_train_clean, df_test_clean, feature_names, scaler,
                   X_train, models, raw_scores, ens, output_df,
                   top_features, output_csv, returned, prev_returned, lib,
                   call>>

Detectors == <<"IF", "PCA", "SVM">>

random_state == 42

\* as DetectorSeed, but with no random_state given: every invocation draws
\* a seed of its own
DetectorSeedPerRun(det, r) == IF det = "SVM" THEN 0 ELSE r

\* the seed a detector is built with in invocation r; OneClassSVM takes none
DetectorSeed(det, r) == IF det = "SVM" THEN 0 ELSE random_state

\* lines 25-32: the estimators validate their input, which must be finite
fit_models(X, r) ==
    [d \in 1..Len(Detectors) |->
        [detector |-> Detectors[d], seed |-> DetectorSeed(Detectors[d], r),
         fitted_on |-> X]]

\* line 95
Fit ==
    /\ pc = "fit"
    /\ IF ~MatrixFinite(X_train)
       THEN /\ Raise("fit", "ValueError")
            /\ UNCHANGED models
       ELSE /\ models' = fit_models(X_train, run)
            /\ Advance("fit", "score")
    /\ UNCHANGED server_vars
    /\ UNCHANGED <<input_csv, run, df_raw, split_idx, df_train, df_test,
                   df_train_clean, df_test_clean, feature_names, scaler,
                   X_train, X_test, raw_scores, ens, output_df,
                   top_features, output_csv, returned, prev_returned, lib,
                   call>>

\* scores a fitted detector may give a row
ScoreRange(det) ==
    CASE det = "IF"  -> {Num(0), Num(2)}
      [] det = "PCA" -> {Num(3)}
      [] det = "SVM" -> {Num(5)}

\* the arguments that decide the score of row x under model m
ScoreKey(m, x) == <<m.detector, m.seed, m.fitted_on, x>>

ScoreKeys(ms, X) ==
    {ScoreKey(ms[d], X[i]) : d \in 1..Len(ms), i \in 1..Len(X)}

\* the score functions the detectors may have on the rows of X
ScoreTables(ms, X) ==
    {[det \in Range(Detectors) |->
        CASE det = "IF" -> sIF [] det = "PCA" -> sPCA [] det = "SVM" -> sSVM] :
        sIF \in [Range(X) -> ScoreRange("IF")],
        sPCA \in [Range(X) -> ScoreRange("PCA")],
        sSVM \in [Range(X) -> ScoreRange("SVM")]}

\* lines 42-47: one score per detector and row; a detector is a function of
\* its fitted state and the row
score_models(ms, X, table) ==
    [d \in 1..Len(ms) |-> [i \in 1..Len(X) |-> table[ScoreKey(ms[d], X[i])]]]

\* line 98
Score ==
    /\ pc = "score"
    /\ IF ~MatrixFinite(X_test)
       THEN /\ Raise("score", "ValueError")
            /\ UNCHANGED <<raw_scores, lib>>
       ELSE /\ \E given \in ScoreTables(models, X_test) :
                 LET table == [k \in ScoreKeys(models, X_test) |->
                                  given[k[1]][k[4]]]
                 IN  /\ \A k \in DOMAIN table :
                           k \in DOMAIN lib.score => table[k] = lib.score[k]
                     /\ raw_scores' = score_models(models, X_test, table)
                     /\ lib' = [lib EXCEPT !.score = table @@ lib.score]
            /\ Advance("score", "ensemble")
    /\ UNCHANGED server_vars
    /\ UNCHANGED <<input_csv, run, df_raw, split_idx, df_train, df_test,
                   df_train_clean, df_test_clean, feature_names, scaler,
                   X_train, X_test, models, ens, output_df, top_features,
                   output_csv, returned, prev_returned, call>>

RECURSIVE RMin(_)
RMin(s) ==
    IF Len(s) = 1 THEN s[1]
    ELSE LET m == RMin(Tail(s)) IN IF RLt(s[1], m) THEN s[1] ELSE m

RECURSIVE RMax(_)
RMax(s) ==
    IF Len(s) = 1 THEN s[1]
    ELSE LET m == RMax(Tail(s)) IN IF RLt(m, s[1]) THEN s[1] ELSE m

\* np.interp(x, (xp1, xp2), (fp1, fp2)) as numpy computes it: a value beyond
\* xp is clamped, the index of x is found by a linear search from the left,
\* and x at the last point of xp takes the last value of fp
NpInterp(x, xp1, xp2, fp1, fp2) ==
    IF IsNaN(x) THEN NaN
    ELSE IF RLt(xp2, x) THEN fp2
    ELSE IF RLt(x, xp1) THEN fp1
    ELSE IF RLe(xp2, x) THEN fp2
    ELSE IF x = xp1 THEN fp1
    ELSE RAdd(RMul(RDiv(RSub(fp2, fp1), RSub(xp2, xp1)), RSub(x, xp1)), fp1)

\* as Combined, but ignoring the weights: the plain sum of the scores
CombinedUnweighted(scores, weights, i) ==
    RAdd(RAdd(scores[1][i], scores[2][i]), scores[3][i])

\* lines 52-56: the weighted sum of the detectors' scores of row i
Combined(scores, weights, i) ==
    RAdd(RAdd(RMul(weights[1], scores[1][i]), RMul(weights[2], scores[2][i])),
         RMul(weights[3], scores[3][i]))

\* as ensemble_score, but rescaling by the maximum alone
ensemble_score_by_max(scores, weights) ==
    LET combined == [i \in 1..Len(scores[1]) |-> Combined(scores, weights, i)]
    IN  [i \in 1..Len(combined) |->
            RMul(Num(100), RDiv(combined[i], RMax(combined)))]

\* lines 51-57
ensemble_score(scores, weights) ==
    LET combined == [i \in 1..Len(scores[1]) |-> Combined(scores, weights, i)]
    IN  [i \in 1..Len(combined) |->
            NpInterp(combined[i], RMin(combined), RMax(combined),
                     Num(0), Num(100))]

\* line 101: the weights of IF, PCA and SVM
PipelineWeights == <<Rat(1, 2), Rat(3, 10), Rat(1, 5)>>

\* lines 100-101
Ensemble ==
    /\ pc = "ensemble"
    /\ ens' = ensemble_score(raw_scores, PipelineWeights)
    /\ Advance("ensemble", "build")
    /\ UNCHANGED server_vars
    /\ UNCHANGED <<input_csv, run, df_raw, split_idx, df_train, df_test,
                   df_train_clean, df_test_clean, feature_names, scaler,
                   X_train, X_test, models, raw_scores, output_df,
                   top_features, output_csv, returned, prev_returned, lib,
                   call>>

\* as ScoredFrame, but keeping only the rows whose composite score is not 0
ScoredFrameAboveZero(df, composite, scores) ==
    LET keep == SelectSeq([i \in 1..Len(df.rows) |-> i],
                          LAMBDA i : composite[i] # Num(0))
        Kept(v) == [i \in 1..Len(keep) |-> v[keep[i]]]
    IN  SetColumn(SetColumn(SetColumn(SetColumn(
            [df EXCEPT !.rows = Kept(df.rows)],
            "abnormality_score", "float64", Kept(composite)),
            "IF_score", "float64", Kept(scores[1])),
            "PCA_score", "float64", Kept(scores[2])),
            "SVM_score", "float64", Kept(scores[3]))

\* lines 104-108: the test partition with the score columns
ScoredFrame(df, composite, scores) ==
    SetColumn(SetColumn(SetColumn(SetColumn(df,
        "abnormality_score", "float64", composite),
        "IF_score", "float64", scores[1]),
        "PCA_score", "float64", scores[2]),
        "SVM_score", "float64", scores[3])

BuildOutput ==
    /\ pc = "build"
    /\ output_df' = ScoredFrame(df_test, ens, raw_scores)
    /\ Advance("build", "rank")
    /\ UNCHANGED server_vars
    /\ UNCHANGED <<input_csv, run, df_raw, split_idx, df_train, df_test,
                   df_train_clean, df_test_clean, feature_names, scaler,
                   X_train, X_test, models, raw_scores, ens, top_features,
                   output_csv, returned, prev_returned, lib, call>>

\* X.var(axis=0): the population variance of every column of a matrix of
\* cells, whose column j shares one scale2
ColumnVariances(X) ==
    [j \in 1..Len(X[1]) |->
        RDiv(Variance([i \in 1..Len(X) |-> X[i][j].num]), X[1][j].scale2)]

\* np.argsort(v) with the default kind="quicksort": every order of the
\* indices in which the values ascend is a possible result
ArgSort(v) ==
    {[i \in 1..Len(v) |-> p[i]] :
        p \in {q \in Permutations(1..Len(v)) :
                 \A i \in 1..(Len(v) - 1) : RLe(v[q[i]], v[q[i + 1]])}}

Reverse(s) == [i \in 1..Len(s) |-> s[Len(s) + 1 - i]]

Take(s, k) == SubSeq(s, 1, IF k < Len(s) THEN k ELSE Len(s))

\* lines 63-64, given the result of np.argsort(variances)
TopIndices(order, k) == Take(Reverse(order), k)

get_top_features(order, names, k) ==
    LET top_indices == TopIndices(order, k)
    IN  [i \in 1..Len(top_indices) |-> names[top_indices[i]]]

top_k == 7

\* a numeric column with its missing values replaced by its mean
ImputedColumn(df, c) ==
    LET values == Column(df, c)
    IN  [i \in 1..Len(values) |->
            IF IsNaN(values[i]) THEN Mean(values) ELSE values[i]]

RECURSIVE AddImputedCopies(_, _, _)
\* as AddCopies, but copying the imputed values
AddImputedCopies(out, df, cols) ==
    IF cols = <<>> THEN out
    ELSE AddImputedCopies(
            IF HasColumn(df, Head(cols))
            THEN SetColumn(out, Head(cols) \o "_copy",
                           df.dtypes[ColIndex(df, Head(cols))],
                           ImputedColumn(df, Head(cols)))
            ELSE out,
            df, Tail(cols))

RECURSIVE AddCopies(_, _, _)
\* lines 112-114
AddCopies(out, df, cols) ==
    IF cols = <<>> THEN out
    ELSE AddCopies(
            IF HasColumn(df, Head(cols))
            THEN SetColumn(out, Head(cols) \o "_copy",
                           df.dtypes[ColIndex(df, Head(cols))],
                           Column(df, Head(cols)))
            ELSE out,
            df, Tail(cols))

\* lines 110-114
TopFeatures ==
    /\ pc = "rank"
    /\ \E order \in ArgSort(ColumnVariances(X_train)) :
          /\ lib.argsort # <<>> => order = lib.argsort[1]
          /\ lib' = [lib EXCEPT !.argsort = <<order>>]
          /\ top_features' = get_top_features(order, feature_names, top_k)
    /\ output_df' = AddCopies(output_df, df_test, top_features')
    /\ Advance("rank", "save")
    /\ UNCHANGED server_vars
    /\ UNCHANGED <<input_csv, run, df_raw, split_idx, df_train, df_test,
                   df_train_clean, df_test_clean, feature_names, scaler,
                   X_train, X_test, models, raw_scores, ens, output_csv,
                   returned, prev_returned, call>>

\* lines 68-69: df.to_csv(path, index=False)
save_output(df) == [columns |-> df.columns, rows |-> df.rows]

\* line 117
Save ==
    /\ pc = "save"
    /\ output_csv' = save_output(output_df)
    /\ Advance("save", "return")
    /\ UNCHANGED server_vars
    /\ UNCHANGED <<input_csv, run, df_raw, split_idx, df_train, df_test,
                   df_train_clean, df_test_clean, feature_names, scaler,
                   X_train, X_test, models, raw_scores, ens, output_df,
                   top_features, returned, prev_returned, lib, call>>

\* line 120
Return ==
    /\ pc = "return"
    /\ returned' = output_df
    /\ Advance("return", "done")
    /\ UNCHANGED server_vars
    /\ UNCHANGED <<input_csv, run, df_raw, split_idx, df_train, df_test,
                   df_train_clean, df_test_clean, feature_names, scaler,
                   X_train, X_test, models, raw_scores, ens, output_df,
                   top_features, output_csv, prev_returned, lib, call>>

\* the pipeline is invoked again on the same file (line 124, or
\* app/dashboard.py line 31 on a rerun of the page); its locals are new,
\* the output file is still there
Rerun ==
    /\ pc \in {"done", "failed"}
    /\ run < MaxRuns
    /\ run' = run + 1
    /\ pc' = "load"
    /\ prev_returned' = returned
    /\ df_raw' = NoFrame
    /\ split_idx' = 0
    /\ df_train' = NoFrame
    /\ df_test' = NoFrame
    /\ df_train_clean' = NoFrame
    /\ df_test_clean' = NoFrame
    /\ feature_names' = <<>>
    /\ scaler' = NoScaler
    /\ X_train' = <<>>
    /\ X_test' = <<>>
    /\ models' = <<>>
    /\ raw_scores' = <<>>
    /\ ens' = <<>>
    /\ output_df' = NoFrame
    /\ top_features' = <<>>
    /\ returned' = NoFrame
    /\ error' = "none"
    /\ failed_at' = "none"
    /\ trace' = <<>>
    /\ UNCHANGED server_vars
    /\ UNCHANGED <<input_csv, output_csv, lib, call>>

Next ==
    \/ Load
    \/ Split
    \/ Prepare
    \/ ScaleFit
    \/ ScaleTransform
    \/ Fit
    \/ Score
    \/ Ensemble
    \/ BuildOutput
    \/ TopFeatures
    \/ Save
    \/ Return

\* one invocation of the pipeline on any file of the model
Spec == Init /\ [][Next]_vars

\* files whose numeric cells are all present
CompleteDatasets ==
    {d \in Datasets :
        \A i \in 1..Len(d.rows) : \A j \in 1..Len(d.columns) :
            d.kinds[j] = "number" => ~IsNaN(d.rows[i][j])}

InitRerun == Init /\ input_csv \in CompleteDatasets

NextRerun == Next \/ Rerun

\* repeated invocations of the pipeline on the same file
SpecRerun == InitRerun /\ [][NextRerun]_vars

---------------------------------------------------------------------------
(* Direct calls of the module's functions, on arguments of the caller's    *)
(* choice.                                                                 *)

NoInput == [columns |-> <<>>, kinds |-> <<>>, rows |-> <<>>]

\* no pipeline is running
Idle ==
    /\ input_csv = NoInput
    /\ pc = "idle"
    /\ run = 0
    /\ Locals
    /\ output_csv = NoFile
    /\ prev_returned = NoFrame
    /\ lib = NoLib

pipeline_vars ==
    <<input_csv, pc, run, df_raw, split_idx, df_train, df_test,
      df_train_clean, df_test_clean, feature_names, scaler, X_train,
      X_test, models, raw_scores, ens, output_df, top_features,
      output_csv, returned, error, failed_at, trace, prev_returned, lib>>

CallScoreValues == {Num(0), Num(1)}

CallWeights ==
    {PipelineWeights,
     <<Rat(1, 2), Rat(1, 2), Rat(1, 2)>>,
     <<Num(1), Num(0), Num(0)>>,
     <<Num(0), Num(0), Num(0)>>}

EnsembleCalls ==
    {[fn |-> "ensemble_score", state |-> "called", scores |-> s,
      weights |-> w, result |-> <<>>, error |-> "none"] :
        s \in UNION {[1..Len(Detectors) -> [1..n -> CallScoreValues]] :
                        n \in 1..MaxVector},
        w \in CallWeights}

InitEns == Idle /\ ServerDown /\ call \in EnsembleCalls

\* ensemble_score(scores, weights), lines 51-57
EnsembleCall ==
    /\ call.fn = "ensemble_score"
    /\ call.state = "called"
    /\ call' = [call EXCEPT !.state = "returned",
                            !.result = ensemble_score(call.scores, call.weights)]
    /\ UNCHANGED pipeline_vars
    /\ UNCHANGED server_vars

NextEns == EnsembleCall

SpecEns == InitEns /\ [][NextEns]_vars

RankValues == {Num(0), Num(1), Num(2)}

RankCounts == {0, 1, 2, top_k}

Plain(x) == [num |-> x, scale2 |-> Num(1)]

\* the calls on a matrix of two rows and m columns
RankCalls(m) ==
    {[fn |-> "get_top_features", state |-> "called",
      X |-> [i \in 1..2 |-> [j \in 1..m |-> Plain(x[i][j])]],
      names |-> [j \in 1..m |-> "f" \o ToString(j)],
      k |-> k, result |-> <<>>] :
         k \in RankCounts, x \in [1..2 -> [1..m -> RankValues]]}

InitRank == Idle /\ ServerDown /\ \E m \in 1..MaxFeatures : call \in RankCalls(m)

\* get_top_features(X, feature_names, k), lines 61-64
TopFeaturesCall ==
    /\ call.fn = "get_top_features"
    /\ call.state = "called"
    /\ \E order \in ArgSort(ColumnVariances(call.X)) :
          call' = [call EXCEPT !.state = "returned",
                               !.result = get_top_features(order, call.names,
                                                           call.k)]
    /\ UNCHANGED pipeline_vars
    /\ UNCHANGED server_vars

NextRank == TopFeaturesCall

SpecRank == InitRank /\ [][NextRank]_vars

---------------------------------------------------------------------------
(* The library calls of fit_models (lines 27-31) and score_models (lines   *)
(* 44-46) taken one at a time, in any order that fits a detector before it *)
(* scores.  What each call reads and writes is what its line reads and     *)
(* writes: a fit reads X_train and writes the detector's own entry of      *)
(* models, a scoring reads that entry and X_test.                          *)

DetectorValues == {Num(0), Num(1)}

\* matrices of one column and up to n rows
Matrices(n) ==
    UNION {[1..m -> [1..1 -> {Plain(v) : v \in DetectorValues}]] : m \in 1..n}

NoModel == [detector |-> "none"]

\* a choice of score functions as a function of the detectors' arguments
KeyedTable(ms, X, given) ==
    [k \in ScoreKeys(ms, X) |-> given[k[1]][k[4]]]

DetectorCalls ==
    UNION {{[fn |-> "detectors", state |-> "called",
             X_train |-> m[1], X_test |-> m[2],
             table |-> KeyedTable(fit_models(m[1], 0), m[2], given),
             models |-> [d \in 1..Len(Detectors) |-> NoModel],
             scores |-> [d \in 1..Len(Detectors) |-> <<>>],
             order |-> <<>>, result |-> <<>>] :
                given \in ScoreTables(fit_models(m[1], 0), m[2])} :
           m \in Matrices(2) \X Matrices(MaxVector)}

InitDet == Idle /\ ServerDown /\ call \in DetectorCalls

Done(step) == \E i \in 1..Len(call.order) : call.order[i] = step

\* as DetectorModel, but the detectors share one slot for their fitted
\* state: a scoring reads the model that was stored last
LastStoredModel(ms, d) ==
    ms[CHOOSE e \in 1..Len(ms) :
          /\ ms[e] # NoModel
          /\ \A f \in (e + 1)..Len(ms) : ms[f] = NoModel]

\* models["IF"], models["PCA"], models["SVM"] of lines 44-46: a scoring
\* reads the fitted state of its own detector
DetectorModel(ms, d) == ms[d]

\* one of lines 27-31: detector d is built and fitted on X_train
FitDetector(d) ==
    /\ call.fn = "detectors"
    /\ ~Done(<<"fit", d>>)
    /\ call' = [call EXCEPT !.models[d] = fit_models(call.X_train, run)[d],
                            !.order = Append(@, <<"fit", d>>)]
    /\ UNCHANGED pipeline_vars
    /\ UNCHANGED server_vars

\* one of lines 44-46: detector d scores the rows of X_test
ScoreDetector(d) ==
    /\ call.fn = "detectors"
    /\ Done(<<"fit", d>>)
    /\ ~Done(<<"score", d>>)
    /\ call' = [call EXCEPT
                  !.scores[d] =
                      [i \in 1..Len(call.X_test) |->
                          call.table[ScoreKey(DetectorModel(call.models, d),
                                              call.X_test[i])]],
                  !.order = Append(@, <<"score", d>>)]
    /\ UNCHANGED pipeline_vars
    /\ UNCHANGED server_vars

\* line 101, once every detector has scored
EnsembleDetectors ==
    /\ call.fn = "detectors"
    /\ call.state = "called"
    /\ \A d \in 1..Len(Detectors) : Done(<<"score", d>>)
    /\ call' = [call EXCEPT !.state = "returned",
                            !.result = ensemble_score(call.scores,
                                                      PipelineWeights)]
    /\ UNCHANGED pipeline_vars
    /\ UNCHANGED server_vars

NextDet ==
    \/ \E d \in 1..Len(Detectors) : FitDetector(d)
    \/ \E d \in 1..Len(Detectors) : ScoreDetector(d)
    \/ EnsembleDetectors

SpecDet == InitDet /\ [][NextDet]_vars

---------------------------------------------------------------------------
(* The handlers of server.py.  A handler with several awaited database    *)
(* operations is in requests between them, so that the steps of different *)
(* handlers and background tasks interleave at every await.                *)

\* request bodies and path parameters
ServiceCreates ==
    {[name |-> "shop", service_type |-> "api",
      developer_id |-> Uuid("Developer", 1), github_repo_url |-> None,
      docker_image |-> img] : img \in {None, Some("acme/shop:1")}}

DeveloperCreates == {[name |-> "dev", email |-> "dev@velora.dev"]}

ServiceIds == {Uuid("Service", n) : n \in 1..MaxServices}

DeveloperIds == {Uuid("Developer", n) : n \in 1..MaxDevelopers}

PipelineUpdates ==
    {[status |-> Some("running"), stage |-> None, progress |-> Some(50)]}

Webhooks ==
    {[service_id |-> sid, status |-> w[1], service_url |-> w[2]] :
        sid \in {None} \cup {Some(s) : s \in ServiceIds},
        w \in {<<"success", None>>,
               <<"SUCCESS", Some("https://shop.example.com")>>,
               <<"failure", None>>}}

\* str.lower on the status values of the model
Lower(s) == IF s = "SUCCESS" THEN "success" ELSE s

\* dict.get(key, default)
DictGet(d, key, default) == IF key \in DOMAIN d THEN d[key] ELSE default

\* line 282: the fields of update_data that are not None
NotNone(update_data) ==
    [k \in {f \in DOMAIN update_data : update_data[f] # None} |->
        update_data[k][1]]

Handler(op, pc_, x_user_hash, service_id, local) ==
    [op |-> op, pc |-> pc_, x_user_hash |-> x_user_hash,
     service_id |-> service_id, local |-> local]

\* the response of a handler that returns `body`
Ok(body) == [status_code |-> 200, body |-> body]

\* a step of a handler that takes the X-User-Hash header: it read or wrote
\* the collections `names` and sent `resp` (NoResponse: the handler goes on)
Scoped(x_user_hash, names, resp) ==
    /\ access' = [scoped |-> TRUE, by |-> x_user_hash, names |-> names]
    /\ response' = resp

\* a step of a handler that takes no user hash
Unscoped(names, resp) ==
    /\ access' = [scoped |-> FALSE, by |-> None, names |-> names]
    /\ response' = resp

\* a step that changes no collection and starts or ends no handler
ReadOnly(x_user_hash, names, resp) ==
    /\ Scoped(x_user_hash, names, resp)
    /\ UNCHANGED <<db, requests, uuids, deleted>>

Frame == UNCHANGED <<pipeline_vars, call, deployment>>

\* lines 189-195
CreateDeveloper ==
    \E x \in Headers, developer \in DeveloperCreates :
        LET user_collections == get_user_db(x)
        IN  /\ IF Raised(user_collections)
               THEN ReadOnly(x, {}, user_collections)
               ELSE /\ uuids.Developer < MaxDevelopers
                    /\ db' = [db EXCEPT ![user_collections.developers] =
                                insert_one(@,
                                    Developer(Uuid("Developer",
                                                   uuids.Developer + 1),
                                              developer))]
                    /\ uuids' = [uuids EXCEPT !.Developer = @ + 1]
                    /\ Scoped(x, {user_collections.developers},
                              Ok(Developer(Uuid("Developer",
                                                uuids.Developer + 1),
                                           developer)))
                    /\ UNCHANGED <<requests, deleted>>
            /\ Frame

\* lines 197-201
GetDevelopers ==
    \E x \in Headers :
        LET user_collections == get_user_db(x)
        IN  /\ IF Raised(user_collections)
               THEN ReadOnly(x, {}, user_collections)
               ELSE ReadOnly(x, {user_collections.developers},
                             Ok([items |-> db[user_collections.developers]]))
            /\ Frame

\* lines 203-209
GetDeveloper ==
    \E x \in Headers, developer_id \in DeveloperIds :
        LET user_collections == get_user_db(x)
        IN  /\ IF Raised(user_collections)
               THEN ReadOnly(x, {}, user_collections)
               ELSE ReadOnly(x, {user_collections.developers},
                        IF find_one(db[user_collections.developers], "id",
                                    developer_id) = None
                        THEN HTTPException(404, "Developer not found")
                        ELSE Ok(find_one(db[user_collections.developers],
                                         "id", developer_id)[1]))
            /\ Frame

\* pipelines begun by rollback_service so far
RollbacksStarted ==
    uuids.Pipeline
    - (uuids.Service
       - Cardinality({r \in requests : r.op = "create_service"}))
    + Cardinality({r \in requests : r.op = "rollback_service"})

\* lines 214-224: the service is stored
CreateService ==
    \E x \in Headers, service_data \in ServiceCreates :
        LET user_collections == get_user_db(x)
            service_obj == Service(Uuid("Service", uuids.Service + 1),
                                   service_data)
        IN  /\ IF Raised(user_collections)
               THEN ReadOnly(x, {}, user_collections)
               ELSE /\ Cardinality(requests) < deployment.concurrency
                    /\ uuids.Service < MaxServices
                    /\ db' = [db EXCEPT ![user_collections.services] =
                                insert_one(@, service_obj)]
                    /\ uuids' = [uuids EXCEPT !.Service = @ + 1]
                    /\ requests' = requests \cup
                          {Handler("create_service", "insert_pipeline", x,
                                   service_obj.id, service_obj)}
                    /\ Scoped(x, {user_collections.services}, NoResponse)
                    /\ UNCHANGED deleted
            /\ Frame

\* lines 227-233: the pipeline is stored, the background task is added and
\* the response is sent; the task starts after the response
CreateServicePipeline ==
    \E r \in requests :
        /\ r.op = "create_service"
        /\ LET user_collections == get_user_db(r.x_user_hash)
           IN  /\ db' = [db EXCEPT ![user_collections.pipelines] =
                           insert_one(@,
                               Pipeline(Uuid("Pipeline", uuids.Pipeline + 1),
                                        r.service_id, "pending",
                                        "initialization"))]
               /\ Scoped(r.x_user_hash, {user_collections.pipelines},
                         Ok(r.local))
        /\ uuids' = [uuids EXCEPT !.Pipeline = @ + 1]
        /\ requests' = (requests \ {r}) \cup
              {Handler("process_service_creation", "pipeline_running",
                       r.x_user_hash, r.service_id, None)}
        /\ UNCHANGED deleted
        /\ Frame

\* lines 236-244
GetServices ==
    \E x \in Headers :
        LET user_collections == get_user_db(x)
        IN  /\ IF Raised(user_collections)
               THEN ReadOnly(x, {}, user_collections)
               ELSE ReadOnly(x, {user_collections.services},
                             Ok([items |-> db[user_collections.services]]))
            /\ Frame

\* lines 246-252
GetService ==
    \E x \in Headers, service_id \in ServiceIds :
        LET user_collections == get_user_db(x)
        IN  /\ IF Raised(user_collections)
               THEN ReadOnly(x, {}, user_collections)
               ELSE ReadOnly(x, {user_collections.services},
                        IF find_one(db[user_collections.services], "id",
                                    service_id) = None
                        THEN HTTPException(404, "Service not found")
                        ELSE Ok(find_one(db[user_collections.services],
                                         "id", service_id)[1]))
            /\ Frame

\* lines 255-259: the service is deleted, or there is none
DeleteService ==
    \E x \in Headers, service_id \in ServiceIds :
        LET user_collections == get_user_db(x)
        IN  /\ IF Raised(user_collections)
               THEN ReadOnly(x, {}, user_collections)
               ELSE IF Matching(db[user_collections.services], "id",
                                service_id) = {}
               THEN ReadOnly(x, {user_collections.services},
                             HTTPException(404, "Service not found"))
               ELSE /\ Cardinality(requests) < deployment.concurrency
                    /\ db' = [db EXCEPT ![user_collections.services] =
                                delete_one(@, "id", service_id)]
                    /\ requests' = requests \cup
                          {Handler("delete_service", "delete_pipelines", x,
                                   service_id, None)}
                    /\ Scoped(x, {user_collections.services}, NoResponse)
                    /\ UNCHANGED <<uuids, deleted>>
            /\ Frame

\* lines 262-264: its pipelines are deleted
DeleteServicePipelines ==
    \E r \in requests :
        /\ r.op = "delete_service"
        /\ LET user_collections == get_user_db(r.x_user_hash)
           IN  /\ db' = [db EXCEPT ![user_collections.pipelines] =
                           delete_many(@, "service_id", r.service_id)]
               /\ Scoped(r.x_user_hash, {user_collections.pipelines},
                         Ok([message |-> "Service deleted successfully"]))
        /\ requests' = requests \ {r}
        /\ deleted' = deleted \cup {r.service_id}
        /\ UNCHANGED uuids
        /\ Frame

\* lines 267-273
GetServicePipeline ==
    \E x \in Headers, service_id \in ServiceIds :
        LET user_collections == get_user_db(x)
        IN  /\ IF Raised(user_collections)
               THEN ReadOnly(x, {}, user_collections)
               ELSE ReadOnly(x, {user_collections.pipelines},
                        IF find_latest(db[user_collections.pipelines],
                                       "service_id", service_id) = None
                        THEN HTTPException(404, "Pipeline not found")
                        ELSE Ok(find_latest(db[user_collections.pipelines],
                                            "service_id", service_id)[1]))
            /\ Frame

\* lines 276-283: the service's latest pipeline is looked up
UpdatePipeline ==
    \E x \in Headers, service_id \in ServiceIds,
       update_data \in PipelineUpdates :
        LET user_collections == get_user_db(x)
            pipeline == find_latest(db[user_collections.pipelines],
                                    "service_id", service_id)
        IN  /\ IF Raised(user_collections)
               THEN ReadOnly(x, {}, user_collections)
               ELSE IF pipeline = None
               THEN ReadOnly(x, {user_collections.pipelines},
                             HTTPException(404, "Pipeline not found"))
               ELSE /\ Cardinality(requests) < deployment.concurrency
                    /\ requests' = requests \cup
                          {Handler("update_pipeline", "update_one", x,
                                   service_id,
                                   [pipeline_id |-> pipeline[1].id,
                                    update_dict |-> NotNone(update_data)])}
                    /\ Scoped(x, {user_collections.pipelines}, NoResponse)
                    /\ UNCHANGED <<db, uuids, deleted>>
            /\ Frame

\* lines 285-290: that pipeline is updated by its id
UpdatePipelineSet ==
    \E r \in requests :
        /\ r.op = "update_pipeline"
        /\ LET user_collections == get_user_db(r.x_user_hash)
           IN  /\ \E coll \in update_one(db[user_collections.pipelines], "id",
                                         r.local.pipeline_id,
                                         r.local.update_dict) :
                      db' = [db EXCEPT ![user_collections.pipelines] = coll]
               /\ Scoped(r.x_user_hash, {user_collections.pipelines},
                         Ok([message |-> "Pipeline updated successfully"]))
        /\ requests' = requests \ {r}
        /\ UNCHANGED <<uuids, deleted>>
        /\ Frame

\* lines 293-297: the service is looked up
RollbackService ==
    \E x \in Headers, service_id \in ServiceIds :
        LET user_collections == get_user_db(x)
        IN  /\ IF Raised(user_collections)
               THEN ReadOnly(x, {}, user_collections)
               ELSE IF find_one(db[user_collections.services], "id",
                                service_id) = None
               THEN ReadOnly(x, {user_collections.services},
                             HTTPException(404, "Service not found"))
               ELSE /\ Cardinality(requests) < deployment.concurrency
                    /\ RollbacksStarted < MaxRollbacks
                    /\ requests' = requests \cup
                          {Handler("rollback_service", "insert_pipeline", x,
                                   service_id, None)}
                    /\ Scoped(x, {user_collections.services}, NoResponse)
                    /\ UNCHANGED <<db, uuids, deleted>>
            /\ Frame

\* lines 300-307: the rollback pipeline is stored
RollbackInsert ==
    \E r \in requests :
        /\ r.op = "rollback_service"
        /\ LET user_collections == get_user_db(r.x_user_hash)
           IN  /\ db' = [db EXCEPT ![user_collections.pipelines] =
                           insert_one(@,
                               Pipeline(Uuid("Pipeline", uuids.Pipeline + 1),
                                        r.service_id, "running", "rollback"))]
               /\ Scoped(r.x_user_hash, {user_collections.pipelines},
                         Ok([message |-> "Rollback initiated",
                             pipeline_id |->
                                 Uuid("Pipeline", uuids.Pipeline + 1)]))
        /\ uuids' = [uuids EXCEPT !.Pipeline = @ + 1]
        /\ requests' = requests \ {r}
        /\ UNCHANGED deleted
        /\ Frame

\* lines 310-314
GetTemplates ==
    \E x \in Headers :
        LET user_collections == get_user_db(x)
        IN  /\ IF Raised(user_collections)
               THEN ReadOnly(x, {}, user_collections)
               ELSE ReadOnly(x, {user_collections.templates},
                             Ok([items |-> db[user_collections.templates]]))
            /\ Frame

\* lines 316-322
GetTemplate ==
    \E x \in Headers, service_type \in {"api"} :
        LET user_collections == get_user_db(x)
        IN  /\ IF Raised(user_collections)
               THEN ReadOnly(x, {}, user_collections)
               ELSE ReadOnly(x, {user_collections.templates},
                        IF find_one(db[user_collections.templates],
                                    "service_type", service_type) = None
                        THEN HTTPException(404, "Template not found")
                        ELSE Ok(find_one(db[user_collections.templates],
                                         "service_type", service_type)[1]))
            /\ Frame

\* lines 387-422: five reads of the caller's services and developers, none
\* of which decides anything; taken as one step
GetDashboardAnalytics ==
    \E x \in Headers :
        LET user_collections == get_user_db(x)
        IN  /\ IF Raised(user_collections)
               THEN ReadOnly(x, {}, user_collections)
               ELSE ReadOnly(x,
                        {user_collections.services,
                         user_collections.developers},
                        Ok([total_services |->
                                Len(db[user_collections.services]),
                            total_developers |->
                                Len(db[user_collections.developers]),
                            recent_activities |->
                                db[user_collections.services]]))
            /\ Frame

\* lines 337-343
WebhookServiceUpdate(webhook_data) ==
    IF Falsy(webhook_data.service_url)
    THEN [status |-> IF Lower(webhook_data.status) = "success"
                     THEN "running" ELSE "failed"]
    ELSE [status |-> IF Lower(webhook_data.status) = "success"
                     THEN "running" ELSE "failed",
          service_url |-> webhook_data.service_url]

\* lines 351-358
WebhookPipelineUpdate(webhook_data) ==
    [status |-> IF Lower(webhook_data.status) = "success"
                THEN "success" ELSE "failed",
     progress |-> 100]

\* lines 326-348: the handler takes no user hash and updates db.services
JenkinsWebhook ==
    \E webhook_data \in Webhooks :
        /\ IF webhook_data.service_id = None
           THEN /\ Unscoped({}, HTTPException(400, "Missing service_id"))
                /\ UNCHANGED <<db, requests, uuids, deleted>>
           ELSE /\ Cardinality(requests) < deployment.concurrency
                /\ \E coll \in update_one(db["services"], "id",
                                          webhook_data.service_id[1],
                                          WebhookServiceUpdate(webhook_data)) :
                       db' = [db EXCEPT !["services"] = coll]
                /\ requests' = requests \cup
                      {Handler("jenkins_webhook", "update_pipeline", None,
                               webhook_data.service_id[1], webhook_data)}
                /\ Unscoped({"services"}, NoResponse)
                /\ UNCHANGED <<uuids, deleted>>
        /\ Frame

\* lines 351-360: update_one with sort on db.pipelines; a driver without
\* the sort option raises TypeError, which ends the request with 500
WebhookPipeline ==
    \E r \in requests :
        /\ r.op = "jenkins_webhook"
        /\ r.pc = "update_pipeline"
        /\ IF deployment.update_one_sort
           THEN /\ db' = [db EXCEPT !["pipelines"] =
                            update_latest(@, "service_id", r.service_id,
                                          WebhookPipelineUpdate(r.local))]
                /\ requests' = (requests \ {r}) \cup
                      {[r EXCEPT !.pc = "notify"]}
                /\ Unscoped({"pipelines"}, NoResponse)
           ELSE /\ requests' = requests \ {r}
                /\ Unscoped({}, HTTPException(500, "Internal Server Error"))
                /\ UNCHANGED db
        /\ UNCHANGED <<uuids, deleted>>
        /\ Frame

\* lines 363-381: the service and its developer are looked up in db.services
\* and db.developers for the notification e-mail, whose failure is logged
WebhookNotify ==
    \E r \in requests :
        /\ r.op = "jenkins_webhook"
        /\ r.pc = "notify"
        /\ Unscoped(IF find_one(db["services"], "id", r.service_id) = None
                    THEN {"services"} ELSE {"services", "developers"},
                    Ok([message |-> "Webhook processed successfully"]))
        /\ requests' = requests \ {r}
        /\ UNCHANGED <<db, uuids, deleted>>
        /\ Frame

\* lines 427-430
TaskCollections(user_hash) ==
    IF ~Falsy(user_hash) THEN get_user_db(user_hash)
    ELSE [services |-> "services", pipelines |-> "pipelines"]

Task(r, at) == r.op = "process_service_creation" /\ r.pc = at

\* the task's step moves on to position nxt
TaskGoes(r, nxt, local) ==
    requests' = (requests \ {r}) \cup {[r EXCEPT !.pc = nxt, !.local = local]}

\* the database operation of the step raises: control moves to the handler
\* `handler` without any change
TaskRaises(r, names, handler) ==
    /\ TaskGoes(r, handler, r.local)
    /\ Scoped(r.x_user_hash, names, NoResponse)
    /\ UNCHANGED db

\* the task ends
TaskEnds(r, names) ==
    /\ requests' = requests \ {r}
    /\ Scoped(r.x_user_hash, names, NoResponse)

\* a $set on the task's pipeline, then on to nxt; or the operation raises
TaskSetsPipeline(r, changes, nxt, handler) ==
    LET name == TaskCollections(r.x_user_hash).pipelines
    IN  \/ /\ \E coll \in update_one(db[name], "service_id", r.service_id,
                                     changes) :
                  db' = [db EXCEPT ![name] = coll]
           /\ TaskGoes(r, nxt, r.local)
           /\ Scoped(r.x_user_hash, {name}, NoResponse)
        \/ TaskRaises(r, {name}, handler)

\* a $set on the task's service, then on to nxt; or the operation raises
TaskSetsService(r, changes, nxt, handler) ==
    LET name == TaskCollections(r.x_user_hash).services
    IN  \/ /\ \E coll \in update_one(db[name], "id", r.service_id, changes) :
                  db' = [db EXCEPT ![name] = coll]
           /\ TaskGoes(r, nxt, r.local)
           /\ Scoped(r.x_user_hash, {name}, NoResponse)
        \/ TaskRaises(r, {name}, handler)

\* lines 433-441
TaskPipelineRunning ==
    \E r \in requests :
        /\ Task(r, "pipeline_running")
        /\ TaskSetsPipeline(r, [status |-> "running",
                                stage |-> "github_repo_creation",
                                progress |-> 10],
                            "find_service", "fail_service")
        /\ UNCHANGED <<uuids, deleted>>
        /\ Frame

\* lines 443-456: the service is read; without it the task returns
TaskFindService ==
    \E r \in requests :
        /\ Task(r, "find_service")
        /\ LET name == TaskCollections(r.x_user_hash).services
               service == find_one(db[name], "id", r.service_id)
           IN  \/ /\ service = None
                  /\ TaskEnds(r, {name})
                  /\ UNCHANGED db
               \/ /\ service # None
                  /\ TaskGoes(r,
                              IF Falsy(deployment.GITHUB_TOKEN)
                              THEN "final_service" ELSE "create_github_repo",
                              [service |-> service[1],
                               existing_docker_image |->
                                   DictGet(service[1], "docker_image", None)])
                  /\ Scoped(r.x_user_hash, {name}, NoResponse)
                  /\ UNCHANGED db
               \/ TaskRaises(r, {name}, "fail_service")
        /\ UNCHANGED <<uuids, deleted>>
        /\ Frame

\* lines 459-463 and 507-509: GitHub creates the repository, or the call
\* raises and the flow continues
TaskCreateRepo ==
    \E r \in requests :
        /\ Task(r, "create_github_repo")
        /\ \/ TaskGoes(r, "set_repo_url",
                       [service |-> r.local.service,
                        existing_docker_image |->
                            r.local.existing_docker_image,
                        repo_data |->
                            [clone_url |->
                                Some("https://github.com/velora/"
                                     \o r.local.service.name \o ".git")]])
           \/ TaskGoes(r, "final_service", r.local)
        /\ Scoped(r.x_user_hash, {}, NoResponse)
        /\ UNCHANGED <<db, uuids, deleted>>
        /\ Frame

\* lines 466-472
TaskSetRepoUrl ==
    \E r \in requests :
        /\ Task(r, "set_repo_url")
        /\ TaskSetsService(r, [github_repo_url |->
                                   DictGet(r.local.repo_data, "clone_url",
                                           None)],
                           "pipeline_template", "final_service")
        /\ UNCHANGED <<uuids, deleted>>
        /\ Frame

\* lines 475-483
TaskPipelineTemplate ==
    \E r \in requests :
        /\ Task(r, "pipeline_template")
        /\ TaskSetsPipeline(r, [stage |-> "template_generation",
                                progress |-> 30],
                            "find_template", "final_service")
        /\ UNCHANGED <<uuids, deleted>>
        /\ Frame

\* lines 486-495: the tenant's template of the service's type, if any, is
\* pushed (push_template_to_repo only logs)
TaskFindTemplate ==
    \E r \in requests :
        /\ Task(r, "find_template")
        /\ LET name == TaskCollections(r.x_user_hash).templates
               template == find_one(db[name], "service_type",
                                    r.local.service.service_type)
           IN  \/ /\ TaskGoes(r,
                              IF template = None THEN "final_service"
                              ELSE "pipeline_ci_cd",
                              r.local)
                  /\ Scoped(r.x_user_hash, {name}, NoResponse)
                  /\ UNCHANGED db
               \/ TaskRaises(r, {name}, "final_service")
        /\ UNCHANGED <<uuids, deleted>>
        /\ Frame

\* lines 497-505
TaskPipelineCiCd ==
    \E r \in requests :
        /\ Task(r, "pipeline_ci_cd")
        /\ TaskSetsPipeline(r, [stage |-> "ci_cd_setup", progress |-> 60],
                            "final_service", "final_service")
        /\ UNCHANGED <<uuids, deleted>>
        /\ Frame

\* lines 516-527
TaskFinalService ==
    \E r \in requests :
        /\ Task(r, "final_service")
        /\ TaskSetsService(r,
               [docker_image |-> r.local.existing_docker_image,
                status |-> "running",
                service_url |->
                    DictGet(r.local.service, "service_url",
                            Some("https://" \o r.local.service.name
                                 \o ".velora.dev"))],
               "final_pipeline", "fail_service")
        /\ UNCHANGED <<uuids, deleted>>
        /\ Frame

\* lines 530-539: the last step of a successful task
TaskFinalPipeline ==
    \E r \in requests :
        /\ Task(r, "final_pipeline")
        /\ LET name == TaskCollections(r.x_user_hash).pipelines
           IN  \/ /\ \E coll \in update_one(db[name], "service_id",
                                            r.service_id,
                                            [status |-> "success",
                                             stage |-> "completed",
                                             progress |-> 100]) :
                         db' = [db EXCEPT ![name] = coll]
                  /\ TaskEnds(r, {name})
               \/ TaskRaises(r, {name}, "fail_service")
        /\ UNCHANGED <<uuids, deleted>>
        /\ Frame

\* as TaskFailService, but the service is left as it is
TaskFailServiceSkipped ==
    \E r \in requests :
        /\ Task(r, "fail_service")
        /\ TaskGoes(r, "fail_pipeline", r.local)
        /\ Scoped(r.x_user_hash, {}, NoResponse)
        /\ UNCHANGED <<db, uuids, deleted>>
        /\ Frame

\* lines 541-550: the handler of an exception of the task's body; its own
\* operations are taken to succeed
TaskFailService ==
    \E r \in requests :
        /\ Task(r, "fail_service")
        /\ LET name == TaskCollections(r.x_user_hash).services
           IN  /\ \E coll \in update_one(db[name], "id", r.service_id,
                                         [status |-> "failed"]) :
                      db' = [db EXCEPT ![name] = coll]
               /\ TaskGoes(r, "fail_pipeline", r.local)
               /\ Scoped(r.x_user_hash, {name}, NoResponse)
        /\ UNCHANGED <<uuids, deleted>>
        /\ Frame

\* lines 552-561
TaskFailPipeline ==
    \E r \in requests :
        /\ Task(r, "fail_pipeline")
        /\ LET name == TaskCollections(r.x_user_hash).pipelines
           IN  /\ \E coll \in update_one(db[name], "service_id", r.service_id,
                                         [status |-> "failed"]) :
                      db' = [db EXCEPT ![name] = coll]
               /\ TaskEnds(r, {name})
        /\ UNCHANGED <<uuids, deleted>>
        /\ Frame

\* the steps of process_service_creation
TaskStep ==
    \/ TaskPipelineRunning
    \/ TaskFindService
    \/ TaskCreateRepo
    \/ TaskSetRepoUrl
    \/ TaskPipelineTemplate
    \/ TaskFindTemplate
    \/ TaskPipelineCiCd
    \/ TaskFinalService
    \/ TaskFinalPipeline
    \/ TaskFailService
    \/ TaskFailPipeline

\* the database after startup_db_client (lines 1004-1062): the default
\* template is in db.templates.  No handler writes a tenant's templates
\* collection; the tenants' collections are filled from outside, or empty.
StartedDbs ==
    {[n \in CollectionNames |->
        IF n = "templates" \/ \E h \in filled : n = h \o "_templates"
        THEN <<api_template>> ELSE <<>>] :
     filled \in {{}, UserHashes}}

\* GITHUB_TOKEN is os.getenv's value (line 448); update_one_sort says
\* whether the installed driver's update_one takes the sort option of line
\* 359; concurrency is the number of handlers and background tasks the
\* model lets be in flight at once
Deployments ==
    [GITHUB_TOKEN : {None, Some("ghp_token")}, update_one_sort : BOOLEAN,
     concurrency : 1..MaxInFlight]

InitServer ==
    /\ Idle
    /\ call = NoCall
    /\ db \in StartedDbs
    /\ requests = {}
    /\ uuids = NoUuids
    /\ response = NoResponse
    /\ access = NoAccess
    /\ deleted = {}
    /\ deployment \in Deployments

\* one request at a time: a handler, and the background task it adds, ends
\* before the next request is taken; the GitHub token is set, the driver
\* takes the sort option and the tenants have their templates
InitSequential ==
    /\ InitServer
    /\ deployment = [GITHUB_TOKEN |-> Some("ghp_token"),
                     update_one_sort |-> TRUE, concurrency |-> 1]
    /\ \A h \in UserHashes : db[h \o "_templates"] # <<>>

\* requests and background tasks overlap
InitConcurrent == InitServer /\ deployment.concurrency = MaxInFlight

NextServer ==
    \/ CreateDeveloper
    \/ GetDevelopers
    \/ GetDeveloper
    \/ CreateService
    \/ CreateServicePipeline
    \/ GetServices
    \/ GetService
    \/ DeleteService
    \/ DeleteServicePipelines
    \/ GetServicePipeline
    \/ UpdatePipeline
    \/ UpdatePipelineSet
    \/ RollbackService
    \/ RollbackInsert
    \/ GetTemplates
    \/ GetTemplate
    \/ GetDashboardAnalytics
    \/ JenkinsWebhook
    \/ WebhookPipeline
    \/ WebhookNotify
    \/ TaskStep

\* the server under any sequence of requests to any of its handlers
SpecServer == InitSequential /\ [][NextServer]_vars

NextWebhook ==
    \/ CreateService
    \/ CreateServicePipeline
    \/ TaskStep
    \/ JenkinsWebhook
    \/ WebhookPipeline
    \/ WebhookNotify

\* services are created and Jenkins reports on them, interleaved at every
\* await
SpecWebhook == InitConcurrent /\ [][NextWebhook]_vars

NextDeletion ==
    \/ CreateService
    \/ CreateServicePipeline
    \/ TaskStep
    \/ DeleteService
    \/ DeleteServicePipelines
    \/ RollbackService
    \/ RollbackInsert

\* services are created, rolled back and deleted, interleaved at every
\* await
SpecDeletion == InitConcurrent /\ [][NextDeletion]_vars

NextCreation == CreateService \/ CreateServicePipeline \/ TaskStep

\* services are created and nothing else is asked of the server; the event
\* loop runs every background task that can take a step
SpecCreation ==
    InitConcurrent /\ [][NextCreation]_vars /\ WF_vars(TaskStep)

---------------------------------------------------------------------------
(* Properties. *)

\* stage st of the current run has completed
Completed(st) == \E i \in 1..Len(trace) : trace[i] = st

CallReturned(fn) == call.fn = fn /\ call.state = "returned"

CallCombined ==
    [i \in 1..Len(call.scores[1]) |-> Combined(call.scores, call.weights, i)]

IsLeast(v, i) == \A j \in 1..Len(v) : RLe(v[i], v[j])

IsGreatest(v, i) == \A j \in 1..Len(v) : RLe(v[j], v[i])

AllEqual(v) == \A i, j \in 1..Len(v) : v[i] = v[j]

\* C1: when the combined values of a call of ensemble_score are not all
\* equal, every composite score it returns lies in [0, 100], a record with
\* the smallest combined value gets exactly 0 and one with the largest
\* combined value gets exactly 100.
C1_CompositeInRange ==
    (CallReturned("ensemble_score") /\ ~AllEqual(CallCombined)) =>
        \A i \in 1..Len(call.result) :
            /\ RLe(Num(0), call.result[i]) /\ RLe(call.result[i], Num(100))
            /\ IsLeast(CallCombined, i) => call.result[i] = Num(0)
            /\ IsGreatest(CallCombined, i) => call.result[i] = Num(100)

\* C1 witness: a call with the pipeline's weights returned a score of 0, a
\* score of 100 and a score strictly between them.
C1_Witness ==
    /\ CallReturned("ensemble_score")
    /\ call.weights = PipelineWeights
    /\ Len(call.result) = Len(call.scores[1])
    /\ \E i, j, k \in 1..Len(call.result) :
          /\ call.result[i] = Num(0)
          /\ call.result[j] = Num(100)
          /\ RLt(Num(0), call.result[k]) /\ RLt(call.result[k], Num(100))

PipelineCombined ==
    [i \in 1..Len(raw_scores[1]) |-> Combined(raw_scores, PipelineWeights, i)]

\* C2: when all combined values of the test partition are equal, every
\* composite score of the run is 0.
C2_DegenerateIsZero ==
    (Completed("ensemble") /\ AllEqual(PipelineCombined)) =>
        \A i \in 1..Len(ens) : ens[i] = Num(0)

WeightSum(w) == RAdd(RAdd(w[1], w[2]), w[3])

\* C3: a call of ensemble_score whose weights do not sum to 1 ends with
\* InvalidWeightsError and returns no composite score.
C3_InvalidWeightsRejected ==
    (CallReturned("ensemble_score") /\ WeightSum(call.weights) # Num(1)) =>
        (call.error = "InvalidWeightsError" /\ call.result = <<>>)

TimeOf(df, i) == df.rows[i][ColIndex(df, time_col)].day

Occurrences(s, x) == Cardinality({i \in 1..Len(s) : s[i] = x})

\* s and t hold the same records, each as many times
IsPermutationOf(s, t) ==
    /\ Len(s) = Len(t)
    /\ \A x \in Range(s) \cup Range(t) : Occurrences(s, x) = Occurrences(t, x)

\* the sorted dataset holds the records of the file, in ascending time
\* order; training is its first split_idx records and test is the rest
SplitIsTemporal ==
    LET n == Len(df_raw.rows)
    IN  /\ IsPermutationOf(df_raw.rows,
                           ParseTimeColumn(ReadCsv(input_csv), time_col).rows)
        /\ \A i \in 1..(n - 1) : TimeOf(df_raw, i) <= TimeOf(df_raw, i + 1)
        /\ df_train.rows = SubSeq(df_raw.rows, 1, split_idx)
        /\ df_test.rows = SubSeq(df_raw.rows, split_idx + 1, n)
        /\ df_train.rows \o df_test.rows = df_raw.rows
        /\ Len(df_train.rows) + Len(df_test.rows) = n
        /\ \A i \in 1..Len(df_train.rows) : \A j \in 1..Len(df_test.rows) :
              TimeOf(df_train, i) <= TimeOf(df_test, j)

\* k = floor(n * tenths / 10)
IsFloorOf(k, n, tenths) == 10 * k <= n * tenths /\ n * tenths < 10 * (k + 1)

\* split fractions a caller might configure, in tenths
SplitFractions == {5, 7, 9}

C5_EmptyPartitionFailsAtSplit ==
    LET n == Len(df_raw.rows)
        k == (n * 7) \div 10
    IN  (Completed("load") /\ pc # "split" /\ (k = 0 \/ k = n)) =>
            /\ pc = "failed"
            /\ failed_at = "split"
            /\ error = "InsufficientDataError"
            /\ ~Completed("prepare")
            /\ ~Completed("scale_fit")
            /\ ~Completed("fit")

\* column j of the training features is not empty and holds one value
ConstantInTraining(j) ==
    /\ df_train_clean.rows # <<>>
    /\ \A i \in 1..Len(df_train_clean.rows) :
          /\ ~IsNaN(df_train_clean.rows[i][j])
          /\ df_train_clean.rows[i][j] = df_train_clean.rows[1][j]

NoneMissing(df) ==
    \A i \in 1..Len(df.rows) : \A j \in 1..Len(df.columns) :
        ~IsNaN(df.rows[i][j])

AllFinite(v) == \A i \in 1..Len(v) : IsFinite(v[i])

RowsAreTestRecords(rows) ==
    LET width == Len(df_raw.columns)
        t == ColIndex(df_raw, time_col)
    IN  /\ Len(rows) = Len(df_raw.rows) - split_idx
        /\ \A i \in 1..Len(rows) :
              SubSeq(rows[i], 1, width) = df_raw.rows[split_idx + i]
        /\ \A i \in 1..(Len(rows) - 1) : rows[i][t].day <= rows[i + 1][t].day

\* C7: the output table, as built, as written to the file and as returned,
\* has exactly one row per record of the test partition, in the test
\* partition's ascending time order, and no row of a training record.
C7_OneRowPerTestRecord ==
    /\ Completed("build") => RowsAreTestRecords(output_df.rows)
    /\ Completed("save") => RowsAreTestRecords(output_csv.rows)
    /\ Completed("return") => RowsAreTestRecords(returned.rows)

\* C7 witness: a run has returned two rows with different composite scores
\* for a file of four records.
C7_Witness ==
    /\ pc = "done"
    /\ Len(input_csv.rows) = 4
    /\ Len(returned.rows) = 2
    /\ ens[1] = Num(0)
    /\ ens[2] = Num(100)

ColumnIs(df, c, width, values) ==
    /\ HasColumn(df, c)
    /\ ColIndex(df, c) > width
    /\ Column(df, c) = values

\* the returned table has the columns of the test partition first and
\* unchanged, then the composite score under the given name, one score
\* column per detector and one copy per ranked feature of the test record's
\* own value
OutputRecordsComplete(composite_name) ==
    LET width == Len(df_test.columns)
    IN  /\ Len(returned.rows) = Len(df_test.rows)
        /\ SubSeq(returned.columns, 1, width) = df_test.columns
        /\ \A i \in 1..Len(returned.rows) :
              SubSeq(returned.rows[i], 1, width) = df_test.rows[i]
        /\ ColumnIs(returned, composite_name, width, ens)
        /\ \A d \in 1..Len(Detectors) :
              ColumnIs(returned, Detectors[d] \o "_score", width, raw_scores[d])
        /\ \A f \in 1..Len(top_features) :
              ColumnIs(returned, top_features[f] \o "_copy", width,
                       Column(df_test, top_features[f]))

NameIndex(names, c) == CHOOSE j \in 1..Len(names) : names[j] = c

\* C9: get_top_features returns min(k, number of features) distinct names,
\* those of the highest variance, in descending order of variance, and of
\* two features of equal variance the one that is first in the column order
\* is ranked first.
C9_RankedWithColumnOrderTies ==
    CallReturned("get_top_features") =>
        LET v == ColumnVariances(call.X)
            n == Len(call.names)
            r == call.result
            col == [i \in 1..Len(r) |-> NameIndex(call.names, r[i])]
        IN  /\ Len(r) = (IF call.k < n THEN call.k ELSE n)
            /\ \A i, j \in 1..Len(r) : i # j => r[i] # r[j]
            /\ \A i \in 1..(Len(r) - 1) : RLe(v[col[i + 1]], v[col[i]])
            /\ \A j \in 1..n : j \notin Range(col) =>
                  \A i \in 1..Len(r) : RLe(v[j], v[col[i]])
            /\ \A a, b \in 1..n : (a < b /\ v[a] = v[b]) =>
                  /\ b \in Range(col) => a \in Range(col)
                  /\ \A i, j \in 1..Len(r) :
                        (col[i] = a /\ col[j] = b) => i < j

\* C10: an invocation after the first, on the same file, returns what the
\* one before returned, and writes the same file; one that fails follows
\* one that failed.
C10_RerunIsIdentical ==
    /\ (run > 1 /\ pc = "done") =>
          /\ returned = prev_returned
          /\ output_csv = save_output(prev_returned)
    /\ (run > 1 /\ pc = "failed") => prev_returned = NoFrame

\* C10 witness: a second invocation has returned two records with
\* different composite scores and different scores of the seeded detector.
C10_Witness ==
    /\ run = 2
    /\ pc = "done"
    /\ Len(returned.rows) = 2
    /\ ens[1] # ens[2]
    /\ raw_scores[1][1] # raw_scores[1][2]

NoNumericColumn(df) == \A j \in 1..Len(df.columns) : df.dtypes[j] # "float64"

\* C11: when the dataset has no numeric column, preparation fails with
\* EmptyFeatureSetError: the run ends at the prepare stage, nothing is
\* scaled or fitted and no output is written.
C11_EmptyFeatureSetFailsAtPrepare ==
    (Completed("split") /\ pc # "prepare" /\ NoNumericColumn(df_raw)) =>
        /\ pc = "failed"
        /\ failed_at = "prepare"
        /\ error = "EmptyFeatureSetError"
        /\ ~Completed("scale_fit")
        /\ ~Completed("fit")
        /\ output_csv = NoFile

\* the stages before st, in order
StagesBefore(st) == SubSeq(StageOrder, 1, StageIndex(st) - 1)

\* C12: a run that raised an exception has stopped at the stage that
\* raised it, having completed exactly the stages before it, and has
\* neither written nor returned an output table; an output table is
\* written only when every stage before the writing has completed without
\* error, and a run that is done has completed every stage and has written
\* and returned the full table.
C12_CompleteOrNothing ==
    /\ error # "none" =>
          /\ pc = "failed"
          /\ trace = StagesBefore(failed_at)
          /\ output_csv = NoFile
          /\ returned = NoFrame
    /\ (output_csv # NoFile \/ returned # NoFrame) =>
          /\ error = "none"
          /\ SubSeq(trace, 1, Len(StagesBefore("return"))) = StagesBefore("return")
          /\ output_csv = save_output(output_df)
    /\ pc = "done" =>
          /\ error = "none"
          /\ trace = StageOrder
          /\ returned = output_df
          /\ output_csv = save_output(output_df)
          /\ Len(returned.rows) = Len(df_test.rows)

\* C12 witness: a run has failed while scoring, after the scaler and the
\* detectors were fitted, and there is no output file and no returned table.
C12_Witness ==
    /\ pc = "failed"
    /\ failed_at = "score"
    /\ models # <<>>
    /\ output_csv = NoFile
    /\ returned = NoFrame

\* C13: when the scaled training matrix, all of its values finite, has
\* fewer rows than features, the run fails at the fit stage with
\* DetectorFitError and has no raw score and no composite score.
C13_FewRowsFailsDetectorFit ==
    ( /\ Completed("scale_transform")
      /\ pc # "fit"
      /\ MatrixFinite(X_train)
      /\ Len(X_train) < Len(feature_names) ) =>
        /\ pc = "failed"
        /\ failed_at = "fit"
        /\ error = "DetectorFitError"
        /\ raw_scores = <<>>
        /\ ens = <<>>

Least(S) == CHOOSE x \in S : \A y \in S : x <= y

RECURSIVE StableByDay(_, _, _)
\* the rows of each of the given days, day by day in ascending order, the
\* rows of one day in the order they have in rows
StableByDay(rows, j, days) ==
    IF days = {} THEN <<>>
    ELSE LET d == Least(days)
         IN  SelectSeq(rows, LAMBDA r : r[j].day = d)
                 \o StableByDay(rows, j, days \ {d})

\* C14: the sorted dataset is the stable sort of the file's records by
\* timestamp: records of equal timestamp keep the order they have in the
\* file, and so do the training and the test partition cut from it.
C14_SortIsStable ==
    Completed("split") =>
        LET parsed == ParseTimeColumn(ReadCsv(input_csv), time_col)
            j == ColIndex(parsed, time_col)
            days == {parsed.rows[i][j].day : i \in 1..Len(parsed.rows)}
            stable == StableByDay(parsed.rows, j, days)
        IN  /\ df_raw.rows = stable
            /\ df_train.rows = SubSeq(stable, 1, split_idx)
            /\ df_test.rows = SubSeq(stable, split_idx + 1, Len(stable))

\* the names of the numeric columns of df, in its column order
NumericColumns(df) ==
    SelectSeq(df.columns, LAMBDA c : df.dtypes[ColIndex(df, c)] = "float64")

\* C15: the prepared test partition has exactly the feature columns of the
\* prepared training partition, in the same order, which are the numeric
\* columns of the dataset; every row of both scaled matrices has one value
\* per feature, and value j of a scaled test row is the test value of
\* feature j scaled by the training statistics of feature j.
C15_TestColumnsAreTrainingColumns ==
    /\ Completed("prepare") =>
          /\ feature_names = df_train_clean.columns
          /\ df_test_clean.columns = feature_names
          /\ feature_names = NumericColumns(df_raw)
    /\ Completed("scale_fit") =>
          \A i \in 1..Len(X_train) : Len(X_train[i]) = Len(feature_names)
    /\ Completed("scale_transform") =>
          /\ Len(X_test) = Len(df_test.rows)
          /\ \A i \in 1..Len(X_test) :
                /\ Len(X_test[i]) = Len(feature_names)
                /\ \A j \in 1..Len(feature_names) :
                      X_test[i][j] =
                          [num |-> RSub(Column(df_test_clean,
                                               feature_names[j])[i],
                                        scaler.mean_[j]),
                           scale2 |-> scaler.scale2_[j]]

\* C15 witness: feature a has values in the training partition and none in
\* the test partition, and the test partition has been scaled with both
\* features.
C15_Witness ==
    /\ Completed("scale_transform")
    /\ feature_names = <<"a", "b">>
    /\ Len(df_test.rows) = 2
    /\ \E i \in 1..Len(df_train.rows) : ~IsNaN(Column(df_train, "a")[i])
    /\ \A i \in 1..Len(df_test.rows) : IsNaN(Column(df_test, "a")[i])

\* the mean of the values of column c that part holds, NaN if it holds none
PartitionMean(part, c) ==
    LET present == SelectSeq(Column(part, c), LAMBDA v : ~IsNaN(v))
    IN  RDiv(RSum(present), Num(Len(present)))

\* clean has the rows of part: a missing value of a feature is replaced by
\* the feature's mean over part, any other value is the value of part
ImputedFrom(clean, part) ==
    /\ Len(clean.rows) = Len(part.rows)
    /\ \A j \in 1..Len(clean.columns) : \A i \in 1..Len(clean.rows) :
          LET c == clean.columns[j]
          IN  clean.rows[i][j] =
                  (IF IsNaN(Column(part, c)[i]) THEN PartitionMean(part, c)
                   ELSE Column(part, c)[i])

\* C16: each prepared partition is its partition with every missing value
\* of a numeric column replaced by that column's mean over the same
\* partition and every other value unchanged, and holds no missing value.
C16_ImputedWithPartitionMean ==
    Completed("prepare") =>
        /\ ImputedFrom(df_train_clean, df_train)
        /\ ImputedFrom(df_test_clean, df_test)
        /\ NoneMissing(df_train_clean)
        /\ NoneMissing(df_test_clean)

\* the raw scores of the fixed sequential order of lines 27-31 and 44-46
SequentialScores ==
    score_models(fit_models(call.X_train, run), call.X_test, call.table)

\* C17: in whatever order the three detectors were fitted and have scored,
\* a fitted detector's state is the one the sequential order gives it, its
\* scores are those of the sequential order, and the composite score is
\* the composite score of the sequential order.
C17_AnyInterleavingSameScores ==
    call.fn = "detectors" =>
        /\ \A d \in 1..Len(Detectors) :
              /\ Done(<<"fit", d>>) =>
                    call.models[d] = fit_models(call.X_train, run)[d]
              /\ Done(<<"score", d>>) =>
                    call.scores[d] = SequentialScores[d]
        /\ call.state = "returned" =>
              /\ call.scores = SequentialScores
              /\ call.result = ensemble_score(SequentialScores, PipelineWeights)

\* C17 witness: the boundary detector was fitted and had scored before the
\* isolation detector was fitted, the subspace detector came last, and the
\* composite score of two test rows with different scores was produced.
C17_Witness ==
    /\ call.fn = "detectors"
    /\ call.state = "returned"
    /\ SubSeq(call.order, 1, 3) = <<<<"fit", 3>>, <<"score", 3>>, <<"fit", 1>>>>
    /\ call.order[6] = <<"score", 2>>
    /\ Len(call.result) = 2
    /\ call.result[1] # call.result[2]

IsPrefixOf(s, t) == Len(s) <= Len(t) /\ s = SubSeq(t, 1, Len(s))

\* the stages in the order the claim gives them, the assembly of the output
\* table last
ClaimedOrder ==
    <<"split", "prepare", "scale_fit", "scale_transform", "fit", "score",
      "ensemble", "rank", "build">>

\* the scaler is fitted before it transforms, a detector is fitted before
\* it scores
FittedBeforeUse ==
    /\ (pc = "scale_transform" \/ Completed("scale_transform")) =>
          (Completed("scale_fit") /\ scaler.fitted)
    /\ (pc = "score" \/ Completed("score")) =>
          /\ Completed("fit")
          /\ \A d \in 1..Len(Detectors) : models[d].detector = Detectors[d]

\* C18, as claimed: the stages a run has completed are, in the order of
\* their completion, the first stages of split, prepare, scaler fit, scaler
\* transform, detector fit, score, ensemble, rank, assemble, each once; the
\* scaler is fitted before it transforms and a detector before it scores.
C18_StagesInClaimedOrder ==
    /\ IsPrefixOf(SelectSeq(trace, LAMBDA st : st \in Range(ClaimedOrder)),
                  ClaimedOrder)
    /\ FittedBeforeUse

\* C18, amended: the stages a run has completed are, in the order of their
\* completion, the first stages of split, prepare, scaler fit, scaler
\* transform, detector fit, score, ensemble, assembly of the score
\* columns, rank with the feature copies, save, return, each once, and the
\* run is at the stage after the last completed one; the scaler is fitted
\* before it transforms and a detector before it scores.
C18_StagesInSourceOrder ==
    /\ IsPrefixOf(trace, StageOrder)
    /\ pc \notin {"done", "failed"} => pc = StageOrder[Len(trace) + 1]
    /\ pc = "done" => trace = StageOrder
    /\ FittedBeforeUse

\* C18 witness: a run is about to rank the features, with the score columns
\* of the output table already assembled.
C18_Witness ==
    /\ pc = "rank"
    /\ trace = StagesBefore("rank")
    /\ HasColumn(output_df, "abnormality_score")
    /\ top_features = <<>>
    /\ Len(output_df.rows) = 2

\* 0.5 * IF + 0.3 * PCA + 0.2 * SVM of row i
DefaultWeightedSum(scores, i) ==
    RAdd(RAdd(RMul(Rat(5, 10), scores[1][i]), RMul(Rat(3, 10), scores[2][i])),
         RMul(Rat(2, 10), scores[3][i]))

\* C19: for a call of ensemble_score with the weights 0.5, 0.3, 0.2 the
\* composite score does not decrease when the weighted sum does not
\* decrease, and when the largest weighted sum is above the smallest the
\* composite score of a row is 100 * (combined - min) / (max - min).
C19_CompositeIsAffine ==
    (CallReturned("ensemble_score") /\ call.weights = PipelineWeights) =>
        LET n == Len(call.scores[1])
            combined == [i \in 1..n |-> DefaultWeightedSum(call.scores, i)]
            lo == combined[CHOOSE i \in 1..n : IsLeast(combined, i)]
            hi == combined[CHOOSE i \in 1..n : IsGreatest(combined, i)]
        IN  /\ Len(call.result) = n
            /\ \A i, j \in 1..n :
                  RLe(combined[i], combined[j]) =>
                      RLe(call.result[i], call.result[j])
            /\ RLt(lo, hi) =>
                  \A i \in 1..n :
                      call.result[i] =
                          RDiv(RMul(Num(100), RSub(combined[i], lo)),
                               RSub(hi, lo))

\* C19 witness: a call with the default weights has returned three
\* composite scores, 0 and 100 and 60 between them.
C19_Witness ==
    /\ CallReturned("ensemble_score")
    /\ call.weights = PipelineWeights
    /\ Len(call.result) = 3
    /\ call.result[1] = Num(0)
    /\ call.result[2] = Num(60)
    /\ call.result[3] = Num(100)

\* the scaler state and the scaled matrix that the training partition part
\* alone determines
TrainingScaler(part) == ScalerFit(validate_and_prepare(part))

TrainingMatrix(part) ==
    ScalerTransform(TrainingScaler(part), validate_and_prepare(part))

\* C20: in every step of a run, a scaler that is fitted and detector models
\* that are fitted stay as they are, and a step that changes the scaler
\* leaves the one computed from the training partition alone, a step that
\* changes the detector models leaves every model fitted on the scaled
\* training matrix alone.
C20_FittedStateIsFrozen ==
    [][ /\ scaler.fitted => scaler' = scaler
        /\ models # <<>> => models' = models
        /\ scaler' # scaler => scaler' = TrainingScaler(df_train')
        /\ models' # models =>
              /\ Len(models') = Len(Detectors)
              /\ \A d \in 1..Len(Detectors) :
                    /\ models'[d].detector = Detectors[d]
                    /\ models'[d].fitted_on = TrainingMatrix(df_train') ]_vars

\* C20 witness: a run is done whose test partition has a value of feature a
\* that the training partition does not have, with the scaler's mean of a
\* still the training mean 0 and the detectors fitted.
C20_Witness ==
    /\ pc = "done"
    /\ scaler.fitted
    /\ scaler.mean_[1] = Num(0)
    /\ Len(models) = Len(Detectors)
    /\ \E i \in 1..Len(df_test_clean.rows) : df_test_clean.rows[i][1] = Num(1)

\* the collections whose names are the user hash h, "_" and a kind
OwnCollections == [h \in UserHashes |-> {h \o "_" \o k : k \in Kinds}]

\* no collection belongs to two user hashes, or to a user hash and main_db
CollectionsDisjoint ==
    \A h1, h2 \in UserHashes :
        /\ OwnCollections[h1] \cap Kinds = {}
        /\ h1 # h2 => OwnCollections[h1] \cap OwnCollections[h2] = {}

\* C21: every step of a handler that takes the user hash header reads and
\* writes only the collections of the hash it was given, the collections of
\* two user hashes are disjoint from each other and from those of main_db,
\* a step changes no collection it did not name, and a request to such a
\* handler without a user hash (absent or empty) is answered 401 without
\* any collection read or written.
C21_TenantIsolation ==
    [][ /\ CollectionsDisjoint
        /\ db' # db =>
              \A n \in CollectionNames : db'[n] # db[n] => n \in access'.names
        /\ (access'.scoped /\ ~Falsy(access'.by)) =>
              access'.names \subseteq OwnCollections[access'.by[1]]
        /\ (access'.scoped /\ Falsy(access'.by)) =>
              /\ access'.names = {}
              /\ response'.status_code = 401
              /\ db' = db
        /\ ~access'.scoped => access'.names \subseteq Kinds ]_vars

\* C21 witness: tenant "u" asked for a service while tenant "u_services"
\* has one stored; the request read only u's own services collection and
\* was answered 404.
C21_Witness ==
    /\ access = [scoped |-> TRUE, by |-> Some("u"), names |-> {"u_services"}]
    /\ response.status_code = 404
    /\ db["u_services_services"] # <<>>
    /\ db["u_services"] = <<>>

\* the status a Jenkins report of `status` is to give the service
ReportedServiceStatus(status) ==
    IF Lower(status) = "success" THEN "running" ELSE "failed"

\* the status it is to give the service's latest pipeline
ReportedPipelineStatus(status) ==
    IF Lower(status) = "success" THEN "success" ELSE "failed"

\* C22: when jenkins_webhook has answered 200 to a report about the id of
\* a service that a tenant created through create_service, that service's
\* status is 'running' for the report status 'success' and 'failed' for any
\* other, and the service's latest pipeline has the status 'success'
\* (respectively 'failed') and progress 100.
C22_WebhookSetsStatus ==
    [][ \A r \in requests :
          (/\ r.op = "jenkins_webhook"
           /\ r.pc = "notify"
           /\ r \notin requests'
           /\ response'.status_code = 200
           /\ \A c \in requests :
                 c.op = "create_service" => c.service_id # r.service_id) =>
            \A h \in UserHashes :
              \A i \in Matching(db'[h \o "_services"], "id", r.service_id) :
                /\ db'[h \o "_services"][i].status =
                      ReportedServiceStatus(r.local.status)
                /\ LET pipeline == find_latest(db'[h \o "_pipelines"],
                                               "service_id", r.service_id)
                   IN  /\ pipeline # None
                       /\ pipeline[1].status =
                             ReportedPipelineStatus(r.local.status)
                       /\ pipeline[1].progress = 100 ]_vars

\* the stored documents about service s, of any tenant
StoredServices(s) ==
    {doc \in UNION {{db[h \o "_services"][i] :
                        i \in 1..Len(db[h \o "_services"])} :
                    h \in UserHashes} : doc.id = s}

StoredPipelines(s) ==
    {doc \in UNION {{db[h \o "_pipelines"][i] :
                        i \in 1..Len(db[h \o "_pipelines"])} :
                    h \in UserHashes} : doc.service_id = s}

\* create_service or the background task of service s is in flight
Creating(s) ==
    \E r \in requests :
        /\ r.op \in {"create_service", "process_service_creation"}
        /\ r.service_id = s

\* the background task of service s is in flight
TaskRunning(s) ==
    \E r \in requests :
        r.op = "process_service_creation" /\ r.service_id = s

\* the terminal states of a service and its pipeline
Terminal(service, pipeline) ==
    \/ /\ pipeline.status = "success"
       /\ pipeline.stage = "completed"
       /\ pipeline.progress = 100
       /\ service.status = "running"
    \/ /\ pipeline.status = "failed"
       /\ service.status = "failed"

TaskLeavesTerminal ==
    \A s \in ServiceIds :
        ~Creating(s) =>
            \A service \in StoredServices(s) :
                /\ StoredPipelines(s) # {}
                /\ \A pipeline \in StoredPipelines(s) :
                      Terminal(service, pipeline)

ProgressOnlyGrows ==
    \A n \in CollectionNames :
        db'[n] # db[n] =>
            \A i \in 1..Len(db[n]) :
                ("progress" \in DOMAIN db[n][i] /\ i <= Len(db'[n])) =>
                    /\ db'[n][i].progress \in {0, 10, 30, 60, 100}
                    /\ db'[n][i].progress >= db[n][i].progress

C24_NoPipelineOutlivesService ==
    \A s \in deleted :
        requests = {} =>
            \A pipeline \in StoredPipelines(s) : pipeline.stage # "rollback"

\* the service document as create_service stored it: the one the task of
\* request r read when it started (no other handler of this specification
\* writes the service in between)
CreatedAs(r) == r.local.service

\* C25: when process_service_creation completes successfully for a
\* service, the stored service has the docker_image it was created with,
\* and, as create_service stores every service without a service_url, the
\* service_url 'https://<service name>.velora.dev'.
C25_SuccessKeepsImageAndSetsUrl ==
    [][ \A r \in requests :
          (/\ r.op = "process_service_creation"
           /\ r.pc = "final_pipeline"
           /\ r \notin requests'
           /\ ~TaskRunning(r.service_id)') =>
            \A service \in StoredServices(r.service_id)' :
                /\ service.docker_image = CreatedAs(r).docker_image
                /\ service.service_url =
                      Some("https://" \o service.name \o ".velora.dev") ]_vars

\* the part of C25 that holds: a successfully completed task leaves the
\* service with the docker_image it was created with
ImageKept ==
    [][ \A r \in requests :
          (/\ r.op = "process_service_creation"
           /\ r.pc = "final_pipeline"
           /\ r \notin requests'
           /\ ~TaskRunning(r.service_id)') =>
            \A service \in StoredServices(r.service_id)' :
                service.docker_image = CreatedAs(r).docker_image ]_vars

====
